---------------------------- MODULE Spec2Model ----------------------------
(***************************************************************************)
(* Model of the result-merging engine of stallscan                         *)
(* (server/services/result_merger.py, class ResultMerger).                 *)
(*                                                                         *)
(* A Python str held in the program state is a TLA+ string; its content    *)
(* is the sequence of characters CharTable gives for it.  Every string     *)
(* function of the source (strip, lower, endswith, split/join, difflib's   *)
(* SequenceMatcher) is computed on those character sequences.  A float     *)
(* similarity is the exact fraction <<numerator, denominator>>.            *)
(***************************************************************************)
EXTENDS Integers, Sequences, FiniteSets, TLC

(***************************************************************************)
(* Bounds of the model.                                                    *)
(***************************************************************************)
\* Largest number of records over all the batches of one call.
MaxRecords == 3

\* Largest group handed to _merge_booth_data when it is called on its own.
MaxGroup == 3

\* A call receives no batch, one batch or two batches.
BatchCounts == {0, 1, 2}

(***************************************************************************)
(* Strings.                                                                *)
(***************************************************************************)
CharTable ==
       ("" :> <<>>) @@
       ("<None>" :> <<"None">>) @@
       ("Acme" :> <<"A", "c", "m", "e">>) @@
       ("ACME CORP." :> <<"A", "C", "M", "E", " ", "C", "O", "R", "P", ".">>) @@
       ("n/a" :> <<"n", "/", "a">>) @@
       ("N/A" :> <<"N", "/", "A">>) @@
       ("company" :> <<"c", "o", "m", "p", "a", "n", "y">>) @@
       ("company:" :> <<"c", "o", "m", "p", "a", "n", "y", ":">>) @@
       (":" :> <<":">>) @@
       ("AB" :> <<"A", "B">>) @@
       ("ab co" :> <<"a", "b", " ", "c", "o">>) @@
       ("ab group" :> <<"a", "b", " ", "g", "r", "o", "u", "p">>) @@
       ("ab groups" :> <<"a", "b", " ", "g", "r", "o", "u", "p", "s">>) @@
       ("***" :> <<"*", "*", "*">>) @@
       ("A1" :> <<"A", "1">>) @@
       ("a-1" :> <<"a", "-", "1">>) @@
       ("B2" :> <<"B", "2">>) @@
       ("5m" :> <<"5", "m">>) @@
       ("none" :> <<"n", "o", "n", "e">>) @@
       ("null" :> <<"n", "u", "l", "l">>) @@
       (" inc" :> <<" ", "i", "n", "c">>) @@
       (" inc." :> <<" ", "i", "n", "c", ".">>) @@
       (" ltd" :> <<" ", "l", "t", "d">>) @@
       (" ltd." :> <<" ", "l", "t", "d", ".">>) @@
       (" llc" :> <<" ", "l", "l", "c">>) @@
       (" corp" :> <<" ", "c", "o", "r", "p">>) @@
       (" corp." :> <<" ", "c", "o", "r", "p", ".">>) @@
       (" company" :> <<" ", "c", "o", "m", "p", "a", "n", "y">>) @@
       (" co" :> <<" ", "c", "o">>) @@
       (" co." :> <<" ", "c", "o", ".">>) @@
       (" group" :> <<" ", "g", "r", "o", "u", "p">>) @@
       (" international" :> <<" ", "i", "n", "t", "e", "r", "n", "a", "t", "i", "o", "n", "a", "l">>) @@
       (" intl" :> <<" ", "i", "n", "t", "l">>) @@
       (" " :> <<" ">>) @@
       (" AB " :> <<" ", "A", "B", " ">>) @@
       ("abd" :> <<"a", "b", "d">>) @@
       ("ABCDEFG" :> <<"A", "B", "C", "D", "E", "F", "G">>) @@
       ("xbcdefg" :> <<"x", "b", "c", "d", "e", "f", "g">>) @@
       ("Xbcdefghijklmn" :> <<"X", "b", "c", "d", "e", "f", "g", "h", "i", "j", "k", "l", "m", "n">>) @@
       ("abcdefghijklmY" :> <<"a", "b", "c", "d", "e", "f", "g", "h", "i", "j", "k", "l", "m", "Y">>) @@
       ("ENVO" :> <<"E", "N", "V", "O">>) @@
       ("ENVO I" :> <<"E", "N", "V", "O", " ", "I">>) @@
       ("ENVO INTERNATIONAL" :> <<"E", "N", "V", "O", " ", "I", "N", "T", "E", "R", "N", "A", "T", "I", "O", "N", "A", "L">>) @@
       ("ENVX" :> <<"E", "N", "V", "X">>) @@
       ("ACME CORP" :> <<"A", "C", "M", "E", " ", "C", "O", "R", "P">>) @@
       ("Acme Corp." :> <<"A", "c", "m", "e", " ", "C", "o", "r", "p", ".">>) @@
       ("Beta" :> <<"B", "e", "t", "a">>) @@
       ("Beta Group" :> <<"B", "e", "t", "a", " ", "G", "r", "o", "u", "p">>) @@
       ("Acme Inc" :> <<"A", "c", "m", "e", " ", "I", "n", "c">>) @@
       ("-Acme-" :> <<"-", "A", "c", "m", "e", "-">>) @@
       ("A&B  Co." :> <<"A", "&", "B", " ", " ", "C", "o", ".">>) @@
       ("Cisco" :> <<"C", "i", "s", "c", "o">>) @@
       ("Beta\t" :> <<"B", "e", "t", "a", "\t">>) @@
       ("a 1" :> <<"a", " ", "1">>) @@
       ("A-1" :> <<"A", "-", "1">>) @@
       ("a_1 " :> <<"a", "_", "1", " ">>) @@
       ("Hall-5-123" :> <<"H", "a", "l", "l", "-", "5", "-", "1", "2", "3">>)

\* The characters of a str value.
Chars(s) == CharTable[s]

LowerCase == <<"a", "b", "c", "d", "e", "f", "g", "h", "i", "j", "k", "l", "m",
               "n", "o", "p", "q", "r", "s", "t", "u", "v", "w", "x", "y", "z">>

UpperCase == <<"A", "B", "C", "D", "E", "F", "G", "H", "I", "J", "K", "L", "M",
               "N", "O", "P", "Q", "R", "S", "T", "U", "V", "W", "X", "Y", "Z">>

Digits == {"0", "1", "2", "3", "4", "5", "6", "7", "8", "9"}

Letters == {LowerCase[k] : k \in DOMAIN LowerCase} \cup {UpperCase[k] : k \in DOMAIN UpperCase}

\* The whitespace str.strip() and str.split() remove.
Whitespace == {" ", "\t", "\n"}

\* str.lower() and str.upper() on one character.
lower_char(c) ==
    IF \E k \in DOMAIN UpperCase : UpperCase[k] = c
    THEN LowerCase[CHOOSE k \in DOMAIN UpperCase : UpperCase[k] = c]
    ELSE c

upper_char(c) ==
    IF \E k \in DOMAIN LowerCase : LowerCase[k] = c
    THEN UpperCase[CHOOSE k \in DOMAIN LowerCase : LowerCase[k] = c]
    ELSE c

lower(s) == [k \in 1..Len(s) |-> lower_char(s[k])]

upper(s) == [k \in 1..Len(s) |-> upper_char(s[k])]

isalnum(c) == c \in Letters \cup Digits

\* str.strip(chars): drop the leading and the trailing characters that are in cs.
RECURSIVE lstrip(_, _)
lstrip(s, cs) ==
    IF s # <<>> /\ s[1] \in cs THEN lstrip(Tail(s), cs) ELSE s

RECURSIVE rstrip(_, _)
rstrip(s, cs) ==
    IF s # <<>> /\ s[Len(s)] \in cs THEN rstrip(SubSeq(s, 1, Len(s) - 1), cs) ELSE s

strip(s, cs) == rstrip(lstrip(s, cs), cs)

endswith(s, suffix) ==
    /\ Len(suffix) <= Len(s)
    /\ SubSeq(s, Len(s) - Len(suffix) + 1, Len(s)) = suffix

\* str.replace(c, ''): delete every occurrence of the character c.
RECURSIVE remove_char(_, _)
remove_char(s, c) ==
    IF s = <<>> THEN <<>>
    ELSE IF s[1] = c THEN remove_char(Tail(s), c)
    ELSE <<s[1]>> \o remove_char(Tail(s), c)

\* ' '.join(s.split()): runs of whitespace become one space, none at the ends.
RECURSIVE squeeze(_)
squeeze(s) ==
    IF Len(s) <= 1 THEN s
    ELSE IF s[1] \in Whitespace /\ s[2] \in Whitespace THEN squeeze(Tail(s))
    ELSE <<IF s[1] \in Whitespace THEN " " ELSE s[1]>> \o squeeze(Tail(s))

join_split(s) == squeeze(strip(s, Whitespace))

\* a in b for two str values.
contains(b, a) ==
    \E k \in 0..(Len(b) - Len(a)) : SubSeq(b, k + 1, k + Len(a)) = a

\* s[:4] and s[-4:].
first4(s) == SubSeq(s, 1, IF Len(s) < 4 THEN Len(s) ELSE 4)

last4(s) == SubSeq(s, IF Len(s) < 4 THEN 1 ELSE Len(s) - 3, Len(s))

(***************************************************************************)
(* difflib.SequenceMatcher(None, a, b).ratio() as _calculate_similarity    *)
(* uses it: no junk, and autojunk acts only on sequences of 200 or more.   *)
(***************************************************************************)
\* Length of the common run that starts at a[ai] and b[bj] inside a[..ahi], b[..bhi].
RECURSIVE run_length(_, _, _, _, _, _)
run_length(a, b, ai, bj, ahi, bhi) ==
    IF ai > ahi \/ bj > bhi \/ a[ai] # b[bj] THEN 0
    ELSE 1 + run_length(a, b, ai + 1, bj + 1, ahi, bhi)

Max(S) == CHOOSE x \in S : \A y \in S : y <= x

Min(S) == CHOOSE x \in S : \A y \in S : x <= y

\* find_longest_match: the longest block, the earliest in a, then the earliest in b.
find_longest_match(a, b, alo, ahi, blo, bhi) ==
    LET size == Max({0} \cup {run_length(a, b, ai, bj, ahi, bhi) : ai \in alo..ahi, bj \in blo..bhi})
        besti == Min({ai \in alo..ahi : \E bj \in blo..bhi : run_length(a, b, ai, bj, ahi, bhi) = size})
        bestj == Min({bj \in blo..bhi : run_length(a, b, besti, bj, ahi, bhi) = size})
    IN  IF size = 0 THEN <<alo, blo, 0>> ELSE <<besti, bestj, size>>

\* get_matching_blocks: the sizes of the blocks, summed.
RECURSIVE matches(_, _, _, _, _, _)
matches(a, b, alo, ahi, blo, bhi) ==
    IF alo > ahi \/ blo > bhi THEN 0
    ELSE LET m == find_longest_match(a, b, alo, ahi, blo, bhi)
         IN  IF m[3] = 0 THEN 0
             ELSE m[3] + matches(a, b, alo, m[1] - 1, blo, m[2] - 1)
                       + matches(a, b, m[1] + m[3], ahi, m[2] + m[3], bhi)

ratio(a, b) == <<2 * matches(a, b, 1, Len(a), 1, Len(b)), Len(a) + Len(b)>>

\* Comparison of two fractions with positive denominators.
frac_ge(x, y) == x[1] * y[2] >= y[1] * x[2]

frac_gt(x, y) == x[1] * y[2] > y[1] * x[2]

(***************************************************************************)
(* Data model (models/schemas.py).                                         *)
(***************************************************************************)
BoothData(company_name, booth, size) ==
    [company_name |-> company_name, booth |-> booth, size |-> size]

ExtractionResult(total_booths, booths) ==
    [total_booths |-> total_booths, booths |-> booths]

(***************************************************************************)
(* ResultMerger (services/result_merger.py).  The string arguments of the  *)
(* helpers are character sequences.                                        *)
(***************************************************************************)
\* self.similarity_threshold = 0.85
DefaultThreshold == <<85, 100>>

\* The 0.9 of the third duplicate rule.
StrictThreshold == <<9, 10>>

ResultMerger(similarity_threshold) == [similarity_threshold |-> similarity_threshold]

suffixes == <<" inc", " inc.", " ltd", " ltd.", " llc", " corp", " corp.",
              " company", " co", " co.", " group", " international", " intl">>

\* for suffix in suffixes: if normalized.endswith(suffix): cut it and strip.
\* None, where a str is expected: not a sequence of characters.
None == <<"None">>

\* `not s` for a str or None.
falsy_empty_only(s) == s = <<>>

falsy(s) == s = <<>> \/ s = None

RECURSIVE strip_suffixes(_, _)
strip_suffixes(normalized, k) ==
    IF k > Len(suffixes) THEN normalized
    ELSE LET suffix == Chars(suffixes[k])
         IN  IF endswith(normalized, suffix)
             THEN strip_suffixes(
                      strip(SubSeq(normalized, 1, Len(normalized) - Len(suffix)), Whitespace),
                      k + 1)
             ELSE strip_suffixes(normalized, k + 1)

\* The normalisation without the last step, ' '.join(normalized.split()).
_normalize_company_name_unsqueezed(name) ==
    IF falsy(name) THEN <<>>
    ELSE LET stripped == strip(name, Whitespace)
             cleaned == strip(strip(strip(strip(stripped, {"*"}), {"-"}), {"&"}), Whitespace)
             lowered == strip(lower(cleaned), Whitespace)
             cut == strip_suffixes(lowered, 1)
         IN  [k \in 1..Len(cut) |-> IF isalnum(cut[k]) THEN cut[k] ELSE " "]

_normalize_company_name(name) ==
    IF falsy(name) THEN <<>>
    ELSE LET stripped == strip(name, Whitespace)
             cleaned == strip(strip(strip(strip(stripped, {"*"}), {"-"}), {"&"}), Whitespace)
             lowered == strip(lower(cleaned), Whitespace)
             cut == strip_suffixes(lowered, 1)
             spaced == [k \in 1..Len(cut) |-> IF isalnum(cut[k]) THEN cut[k] ELSE " "]
         IN  join_split(spaced)

\* The booth normalisation without upper().
_normalize_booth_number_keep_case(booth) ==
    IF falsy(booth) THEN <<>>
    ELSE LET normalized == strip(booth, Whitespace)
         IN  remove_char(remove_char(remove_char(normalized, " "), "-"), "_")

_normalize_booth_number(booth) ==
    IF falsy(booth) THEN <<>>
    ELSE LET normalized == strip(upper(booth), Whitespace)
         IN  remove_char(remove_char(remove_char(normalized, " "), "-"), "_")

_calculate_similarity(str1, str2) ==
    IF falsy(str1) \/ falsy(str2) THEN <<0, 1>>
    ELSE ratio(lower(str1), lower(str2))

\* The comparison without the early return of lines 68-69 for an empty normal form.
_are_companies_similar_unguarded(self, name1, name2) ==
    LET norm1 == _normalize_company_name(name1)
        norm2 == _normalize_company_name(name2)
    IN  IF norm1 = norm2 THEN TRUE
        ELSE frac_ge(_calculate_similarity(norm1, norm2), self.similarity_threshold)

_are_companies_similar(self, name1, name2) ==
    LET norm1 == _normalize_company_name(name1)
        norm2 == _normalize_company_name(name2)
    IN  IF norm1 = <<>> \/ norm2 = <<>> THEN FALSE
        ELSE IF norm1 = norm2 THEN TRUE
        ELSE frac_ge(_calculate_similarity(norm1, norm2), self.similarity_threshold)

_are_booths_similar(booth1, booth2) ==
    LET norm1 == _normalize_booth_number(booth1)
        norm2 == _normalize_booth_number(booth2)
    IN  IF norm1 = <<>> \/ norm2 = <<>> THEN FALSE
        ELSE norm1 = norm2

\* The fragment test without the minimum length of 3.
_is_fragment_of_any_length(short_name, long_name) ==
    IF falsy(short_name) \/ falsy(long_name) THEN FALSE
    ELSE LET short_norm == _normalize_company_name(short_name)
             long_norm == _normalize_company_name(long_name)
         IN  IF contains(long_norm, short_norm) \/ contains(short_norm, long_norm) THEN TRUE
             ELSE IF /\ Len(short_norm) >= 4
                     /\ Len(long_norm) >= 4
                     /\ \/ first4(short_norm) = first4(long_norm)
                        \/ last4(short_norm) = last4(long_norm)
                  THEN TRUE
             ELSE FALSE

_is_fragment_of(short_name, long_name) ==
    IF falsy(short_name) \/ falsy(long_name) THEN FALSE
    ELSE LET short_norm == _normalize_company_name(short_name)
             long_norm == _normalize_company_name(long_name)
         IN  IF Len(short_norm) < 3 \/ Len(long_norm) < 3 THEN FALSE
             ELSE IF contains(long_norm, short_norm) \/ contains(short_norm, long_norm) THEN TRUE
             ELSE IF /\ Len(short_norm) >= 4
                     /\ Len(long_norm) >= 4
                     /\ \/ first4(short_norm) = first4(long_norm)
                        \/ last4(short_norm) = last4(long_norm)
                  THEN TRUE
             ELSE FALSE

\* None as the value of a field of a record.
NoneField == "<None>"

\* The truth of a field in a condition: neither empty nor None.
truthy(s) == s # "" /\ s # NoneField

\* The duplicate test of the sweep, for the seed of a group and a later candidate.
\* A duplicate test in which two different booth numbers keep two records apart.
is_duplicate_apart_by_booth(self, seed, candidate) ==
    LET company_match == _are_companies_similar(self, Chars(seed.company_name),
                                                Chars(candidate.company_name))
        booth_match == _are_booths_similar(Chars(seed.booth), Chars(candidate.booth))
    IN  \/ company_match /\ booth_match
        \/ company_match /\ (~truthy(seed.booth) \/ ~truthy(candidate.booth))

is_duplicate(self, seed, candidate) ==
    LET company_match == _are_companies_similar(self, Chars(seed.company_name),
                                                Chars(candidate.company_name))
        booth_match == _are_booths_similar(Chars(seed.booth), Chars(candidate.booth))
        is_fragment == _is_fragment_of(Chars(candidate.company_name), Chars(seed.company_name))
    IN  \/ company_match /\ booth_match
        \/ company_match /\ (~truthy(seed.booth) \/ ~truthy(candidate.booth))
        \/ company_match /\ frac_gt(_calculate_similarity(Chars(seed.company_name),
                                                         Chars(candidate.company_name)),
                                    StrictThreshold)
        \/ is_fragment

\* An AttributeError: a str method is reached with None as its receiver.  Each
\* predicate follows the guards of its helper up to the first method call.
_normalize_company_name_raises(name) == ~falsy(name) /\ name = None

_normalize_booth_number_raises(booth) == ~falsy(booth) /\ booth = None

_calculate_similarity_raises(str1, str2) ==
    ~(falsy(str1) \/ falsy(str2)) /\ (str1 = None \/ str2 = None)

_are_companies_similar_raises(name1, name2) ==
    _normalize_company_name_raises(name1) \/ _normalize_company_name_raises(name2)

_are_booths_similar_raises(booth1, booth2) ==
    _normalize_booth_number_raises(booth1) \/ _normalize_booth_number_raises(booth2)

_is_fragment_of_raises(short_name, long_name) ==
    /\ ~(falsy(short_name) \/ falsy(long_name))
    /\ _normalize_company_name_raises(short_name) \/ _normalize_company_name_raises(long_name)

\* The duplicate test raises: the helpers are called in the order of lines 172-186,
\* the raw similarity only when the first two rules have failed on a company match.
is_duplicate_raises(self, seed, candidate) ==
    LET name1 == Chars(seed.company_name)
        name2 == Chars(candidate.company_name)
        number1 == Chars(seed.booth)
        number2 == Chars(candidate.booth)
    IN  \/ _are_companies_similar_raises(name1, name2)
        \/ _are_booths_similar_raises(number1, number2)
        \/ _is_fragment_of_raises(name2, name1)
        \/ /\ _are_companies_similar(self, name1, name2)
           /\ ~_are_booths_similar(number1, number2)
           /\ truthy(seed.booth) /\ truthy(candidate.booth)
           /\ _calculate_similarity_raises(name1, name2)

\* field.strip() in the score is reached with None.
score_raises(booth) ==
    \E field \in {"company_name", "booth", "size"} :
        truthy(booth[field]) /\ Chars(booth[field]) = None

_merge_booth_data_raises(booths) ==
    Len(booths) > 1 /\ \E k \in 1..Len(booths) : score_raises(booths[k])

\* The completeness score of one record.
score(booth) ==
    LET company == strip(Chars(booth.company_name), Whitespace)
        number == strip(Chars(booth.booth), Whitespace)
        area == strip(Chars(booth.size), Whitespace)
    IN  (IF truthy(booth.company_name) /\ Len(company) > 0 THEN Len(company) ELSE 0)
      + (IF truthy(booth.booth) /\ Len(number) > 0 THEN Len(number) * 2 ELSE 0)
      + (IF truthy(booth.size) /\ Len(area) > 0 THEN 10 ELSE 0)

\* A loop that keeps the last record whose score reaches the best so far.
RECURSIVE best_of_last(_, _, _, _)
best_of_last(booths, k, best_booth, best_score) ==
    IF k > Len(booths) THEN best_booth
    ELSE IF score(booths[k]) >= best_score
         THEN best_of_last(booths, k + 1, booths[k], score(booths[k]))
         ELSE best_of_last(booths, k + 1, best_booth, best_score)

\* The loop that keeps the first record whose score exceeds the best so far.
RECURSIVE best_of(_, _, _, _)
best_of(booths, k, best_booth, best_score) ==
    IF k > Len(booths) THEN best_booth
    ELSE IF score(booths[k]) > best_score
         THEN best_of(booths, k + 1, booths[k], score(booths[k]))
         ELSE best_of(booths, k + 1, best_booth, best_score)

\* A loop that fills the empty fields of merged from the records in reverse order.
RECURSIVE fill_from_reversed(_, _, _)
fill_from_reversed(merged, booths, k) ==
    IF k > Len(booths) THEN merged
    ELSE LET booth == booths[Len(booths) + 1 - k]
             m1 == IF ~truthy(merged.company_name) /\ truthy(booth.company_name)
                   THEN [merged EXCEPT !.company_name = booth.company_name] ELSE merged
             m2 == IF ~truthy(m1.booth) /\ truthy(booth.booth)
                   THEN [m1 EXCEPT !.booth = booth.booth] ELSE m1
             m3 == IF ~truthy(m2.size) /\ truthy(booth.size)
                   THEN [m2 EXCEPT !.size = booth.size] ELSE m2
         IN  fill_from_reversed(m3, booths, k + 1)

\* The loop that fills the empty fields of merged from the records in order.
RECURSIVE fill_from(_, _, _)
fill_from(merged, booths, k) ==
    IF k > Len(booths) THEN merged
    ELSE LET booth == booths[k]
             m1 == IF ~truthy(merged.company_name) /\ truthy(booth.company_name)
                   THEN [merged EXCEPT !.company_name = booth.company_name] ELSE merged
             m2 == IF ~truthy(m1.booth) /\ truthy(booth.booth)
                   THEN [m1 EXCEPT !.booth = booth.booth] ELSE m1
             m3 == IF ~truthy(m2.size) /\ truthy(booth.size)
                   THEN [m2 EXCEPT !.size = booth.size] ELSE m2
         IN  fill_from(m3, booths, k + 1)

\* Called with a non-empty list only: every group holds its seed.
_merge_booth_data(booths) ==
    IF Len(booths) = 1 THEN booths[1]
    ELSE LET best_booth == best_of(booths, 1, booths[1], 0)
         IN  fill_from(BoothData(best_booth.company_name, best_booth.booth, best_booth.size),
                       booths, 1)

\* A total that reads the first batch only.
sum_total_booths_first(original_results, k) ==
    IF k > Len(original_results) THEN 0 ELSE original_results[k].total_booths

RECURSIVE sum_total_booths(_, _)
sum_total_booths(original_results, k) ==
    IF k > Len(original_results) THEN 0
    ELSE original_results[k].total_booths + sum_total_booths(original_results, k + 1)

\* Statistics that divide by the original total whatever it is.
get_merge_statistics_unguarded(original_results, merged_result) ==
    LET total_original == sum_total_booths(original_results, 1)
        total_merged == merged_result.total_booths
    IN  [original_total |-> total_original,
         merged_total |-> total_merged,
         duplicates_removed |-> total_original - total_merged,
         duplicate_rate |-> <<total_original - total_merged, total_original>>,
         sources_merged |-> Len(original_results)]

\* Statistics whose rate is taken over the merged total instead of the original one.
get_merge_statistics_rate_of_merged(original_results, merged_result) ==
    LET total_original == sum_total_booths(original_results, 1)
        total_merged == merged_result.total_booths
    IN  [original_total |-> total_original,
         merged_total |-> total_merged,
         duplicates_removed |-> total_original - total_merged,
         duplicate_rate |-> IF total_original > 0
                            THEN <<total_original - total_merged, total_merged>>
                            ELSE <<0, 1>>,
         sources_merged |-> Len(original_results)]

\* duplicate_rate is a fraction; the 0 of the else branch is <<0, 1>>.
get_merge_statistics(original_results, merged_result) ==
    LET total_original == sum_total_booths(original_results, 1)
        total_merged == merged_result.total_booths
    IN  [original_total |-> total_original,
         merged_total |-> total_merged,
         duplicates_removed |-> total_original - total_merged,
         duplicate_rate |-> IF total_original > 0
                            THEN <<total_original - total_merged, total_original>>
                            ELSE <<0, 1>>,
         sources_merged |-> Len(original_results)]

(***************************************************************************)
(* The inputs of a call.                                                   *)
(***************************************************************************)
\* The records a batch may hold.
BoothPool ==
    { BoothData("Acme", "A1", ""),
      BoothData("ACME CORP.", "B2", ""),
      BoothData("", "A1", "5m"),
      BoothData("n/a", "A1", ""),
      BoothData("AB", "a-1", ""),
      BoothData("ab co", "", "5m"),
      BoothData("ab co", "B2", ""),
      BoothData("ab group", "A1", ""),
      BoothData("ab groups", "B2", "5m"),
      BoothData("***", "A1", "") }

\* Malformed records: fields that are None or empty, next to well-formed ones.
MalformedPool ==
    { BoothData("Acme", NoneField, NoneField),
      BoothData("Acme", "A1", NoneField),
      BoothData(NoneField, "A1", "5m"),
      BoothData(NoneField, NoneField, NoneField),
      BoothData("", "A1", NoneField),
      BoothData("Acme", "", "5m"),
      BoothData("ACME CORP.", "B2", "") }

\* A field with None replaced by the empty string, and a record, a batch list so.
blank(field) == IF field = NoneField THEN "" ELSE field

blank_booth(booth) == BoothData(blank(booth.company_name), blank(booth.booth), blank(booth.size))

blank_result(result) ==
    ExtractionResult(result.total_booths,
                     [k \in 1..Len(result.booths) |-> blank_booth(result.booths[k])])

blank_results(batches) == [k \in 1..Len(batches) |-> blank_result(batches[k])]

AllRecords ==
    BoothPool \cup MalformedPool \cup {blank_booth(booth) : booth \in MalformedPool}
    \cup {BoothData("Xbcdefghijklmn", "A1", ""), BoothData("abcdefghijklmY", "A1", "5m")}

\* Arguments that are no list: None and numbers.
NoneArgument == <<[py_type |-> "NoneType", value |-> 0]>>

Number(n) == <<[py_type |-> "int", value |-> n]>>

NonListArguments == {NoneArgument, Number(0), Number(5)}

is_list(argument) == argument = <<>> \/ "py_type" \notin DOMAIN argument[1]

\* not argument, for None and numbers.
not_argument(argument) == argument[1].py_type = "NoneType" \/ argument[1].value = 0

Thresholds == {DefaultThreshold}

\* A stricter threshold, as a second merger is built with for a secondary pass.
StricterThreshold == <<95, 100>>

\* The thresholds of the mergers that exist side by side.
Configurations == Thresholds \cup {StricterThreshold}

\* Records of two companies whose names are 12/14 similar and share no fragment:
\* duplicates under the default threshold, two companies under the stricter one.
ConcurrentPool ==
    { BoothData("Xbcdefghijklmn", "A1", ""),
      BoothData("abcdefghijklmY", "A1", "5m") }

\* Every producer of the repository builds a batch with total_booths = len(booths).
make_result(booths) == ExtractionResult(Len(booths), booths)

BoothLists == UNION {[1..n -> BoothPool] : n \in 0..MaxRecords}

\* The argument of a call: no batch, the one batch f, or f cut in two batches after c.
batches_of(f, c, n) ==
    IF n = 0 THEN <<>>
    ELSE IF n = 1 THEN <<make_result(f)>>
    ELSE <<make_result(SubSeq(f, 1, c)), make_result(SubSeq(f, c + 1, Len(f)))>>

\* is_duplicate, tabulated over the records and thresholds of the model.
duplicate_table ==
    [th \in {DefaultThreshold, <<95, 100>>} |->
        [seed \in AllRecords |->
            [candidate \in AllRecords |-> is_duplicate(ResultMerger(th), seed, candidate)]]]

\* _normalize_company_name of the company_name of a record, tabulated over the pool.
company_key_table ==
    [booth \in BoothPool |-> _normalize_company_name(Chars(booth.company_name))]

\* is_duplicate_raises, tabulated likewise.
raises_table ==
    [th \in {DefaultThreshold, <<95, 100>>} |->
        [seed \in AllRecords |->
            [candidate \in AllRecords |->
                is_duplicate_raises(ResultMerger(th), seed, candidate)]]]

(***************************************************************************)
(* State.  Positions in all_booths count from 1 (Python's from 0); a group *)
(* is the sequence of the positions of its records, which stand for the    *)
(* references the Python lists hold.                                       *)
(***************************************************************************)
VARIABLES
    merger,              \* the ResultMerger instance (self)
    results,             \* the argument of the call: the batches
    pc,                  \* where the caller and the call are
    all_booths,          \* the flattened records
    booth_groups,        \* the groups closed so far
    processed_indices,   \* the positions already in a group
    current_group,       \* the group being built
    i,                   \* position of the seed, outer loop
    j,                   \* position of the candidate, inner loop
    compared,            \* history: the pairs <<seed, candidate>> the sweep tested
    merged_booths,       \* the resolved records kept so far
    returned,            \* <<>> until the call returns, then <<the merged result>>
    statistics,          \* <<>> until get_merge_statistics returns, then <<its result>>
    prev,                \* <<>>, or <<the earlier call of the caller>>
    unit,                \* a helper called on its own: its name, arguments and result
    raised,              \* "", or the class of the exception that ended the call
    caller,              \* the running call as its caller began it: id, instance, arguments
    suspended,           \* <<>>, or <<the frame of the call that is not running>>
    instances,           \* the ResultMerger objects that exist
    seen_combinations,   \* utils/merger.py: the keys of the records kept so far
    company_names,       \* enrich_companies_batch: the names to look up
    max_concurrent,      \* enrich_companies_batch: the size of the semaphore
    semaphore,           \* the free slots of the asyncio.Semaphore
    tasks                \* the enrich_single coroutines, one for each name

vars == <<merger, results, pc, all_booths, booth_groups, processed_indices,
          current_group, i, j, compared, merged_booths, returned,
          statistics, prev, unit, raised, caller, suspended, instances,
          seen_combinations, company_names, max_concurrent, semaphore, tasks>>

places == <<company_names, max_concurrent, semaphore, tasks>>

threads == <<caller, suspended, instances>>

locals == <<all_booths, booth_groups, processed_indices, current_group, i, j,
            compared, merged_booths>>

RECURSIVE flatten(_, _)
flatten(batches, k) ==
    IF k > Len(batches) THEN <<>>
    ELSE batches[k].booths \o flatten(batches, k + 1)

\* The records of a group, in the order of the group.
members(group) == [k \in 1..Len(group) |-> all_booths[group[k]]]

\* A sweep that compares a candidate with the latest member of the group.
booth1_chained == all_booths[current_group[Len(current_group)]]

\* The seed the candidates are compared with.
booth1 == all_booths[i]

booth2 == all_booths[j]

\* The position in the flattened input of record m of batch b: extend keeps batch
\* order and the order inside a batch.
RECURSIVE input_index(_, _, _)
input_index(batches, b, m) ==
    IF b = 1 THEN m ELSE Len(batches[b - 1].booths) + input_index(batches, b - 1, m)

\* A resolution that fills the best record of the group itself instead of a new one.
booths_after_merge_in_place(booths) ==
    IF Len(booths) = 1 THEN booths
    ELSE LET best_booth == best_of(booths, 1, booths[1], 0)
             at == CHOOSE k \in 1..Len(booths) :
                       booths[k] = best_booth /\ \A h \in 1..(k - 1) : booths[h] # best_booth
         IN  [booths EXCEPT ![at] = fill_from(best_booth, booths, 1)]

\* The records of a group after _merge_booth_data has run on them: merged is a new
\* BoothData, so the assignments of the fill loop reach no record of the group.
booths_after_merge(booths) == booths

\* The records of all_booths after every group was resolved.  The sweep has put
\* each position in one group.
records_after(groups) ==
    [p \in 1..Len(all_booths) |->
        LET g == CHOOSE h \in 1..Len(groups) : \E k \in 1..Len(groups[h]) : groups[h][k] = p
            at == CHOOSE k \in 1..Len(groups[g]) : groups[g][k] = p
        IN  booths_after_merge(members(groups[g]))[at]]

\* The batches hold the very records all_booths holds: a record written through
\* all_booths is written in its batch.
write_back(batches, records) ==
    [b \in 1..Len(batches) |->
        [batches[b] EXCEPT !.booths =
            [m \in 1..Len(batches[b].booths) |-> records[input_index(batches, b, m)]]]]

\* A filter that also wants a booth number.
include_merged_needs_booth(merged_booth) ==
    truthy(merged_booth.company_name) /\ truthy(merged_booth.booth)

\* if merged_booth and merged_booth.company_name
include_merged(merged_booth) == truthy(merged_booth.company_name)

\* A loop that keeps every resolved record, named or not.
RECURSIVE merge_groups_keep_all(_, _)
merge_groups_keep_all(groups, k) ==
    IF k > Len(groups) THEN <<>>
    ELSE <<_merge_booth_data(members(groups[k]))>> \o merge_groups_keep_all(groups, k + 1)

RECURSIVE merge_groups(_, _)
merge_groups(groups, k) ==
    IF k > Len(groups) THEN <<>>
    ELSE LET merged_booth == _merge_booth_data(members(groups[k]))
         IN  (IF include_merged(merged_booth) THEN <<merged_booth>> ELSE <<>>)
             \o merge_groups(groups, k + 1)

\* A call as its caller began it: the id of the call, the instance it runs on, and
\* the arguments and the threshold as they were then.
began(call, instance, self, batches) ==
    [call |-> call, instance |-> instance, results |-> batches,
     similarity_threshold |-> self.similarity_threshold]

\* A helper of the class called on its own, before it returns and after.
helper_call(fn, args) == [fn |-> fn, args |-> args, out |-> <<>>]

no_call == helper_call("", <<>>)

Init ==
    /\ merger \in {ResultMerger(th) : th \in Thresholds}
    /\ \E f \in BoothLists : \E c \in 0..Len(f) : \E n \in BatchCounts :
           results = batches_of(f, c, n)
    /\ pc = "call"
    /\ all_booths = <<>>
    /\ booth_groups = <<>>
    /\ processed_indices = {}
    /\ current_group = <<>>
    /\ i = 0
    /\ j = 0
    /\ compared = {}
    /\ merged_booths = <<>>
    /\ returned = <<>>
    /\ statistics = <<>>
    /\ prev = <<>>
    /\ unit = no_call
    /\ raised = ""
    /\ caller = began(1, 1, merger, results)
    /\ suspended = <<>>
    /\ instances = <<merger>>
    /\ seen_combinations = {}
    /\ company_names = <<>>
    /\ max_concurrent = 0
    /\ semaphore = 0
    /\ tasks = <<>>

\* merge_extraction_results, entry: the two early returns and the flattening.
Call ==
    /\ pc = "call"
    /\ IF ~is_list(results)
       THEN IF not_argument(results)
            THEN /\ returned' = <<ExtractionResult(0, <<>>)>>
                 /\ pc' = "returned"
                 /\ UNCHANGED <<all_booths, i, raised>>
            ELSE /\ raised' = "TypeError"
                 /\ pc' = "raised"
                 /\ UNCHANGED <<all_booths, i, returned>>
       ELSE LET flat == flatten(results, 1)
            IN  IF results = <<>> \/ flat = <<>>
                THEN /\ returned' = <<ExtractionResult(0, <<>>)>>
                     /\ pc' = "returned"
                     /\ all_booths' = IF results = <<>> THEN all_booths ELSE flat
                     /\ UNCHANGED <<i, raised>>
                ELSE /\ all_booths' = flat
                     /\ i' = 1
                     /\ pc' = "outer"
                     /\ UNCHANGED <<returned, raised>>
    /\ UNCHANGED <<places, seen_combinations, threads, unit, merger, results, booth_groups, processed_indices, current_group,
                   j, compared, merged_booths, statistics, prev>>

\* Outer loop: the record at i is already in a group.
SkipProcessed ==
    /\ pc = "outer"
    /\ i <= Len(all_booths)
    /\ i \in processed_indices
    /\ i' = i + 1
    /\ UNCHANGED <<places, seen_combinations, threads, unit, raised, merger, results, pc, all_booths, booth_groups, processed_indices,
                   current_group, j, compared, merged_booths, returned,
                   statistics, prev>>

\* An outer loop that sets the threshold of its instance for a stricter pass.
OpenGroup_sets_threshold ==
    /\ pc = "outer"
    /\ i <= Len(all_booths)
    /\ i \notin processed_indices
    /\ current_group' = <<i>>
    /\ processed_indices' = processed_indices \cup {i}
    /\ j' = i + 1
    /\ pc' = "inner"
    /\ merger' = [merger EXCEPT !.similarity_threshold = <<95, 100>>]
    /\ UNCHANGED <<places, seen_combinations, threads, unit, raised, results, all_booths, booth_groups, i, compared,
                   merged_booths, returned, statistics, prev>>

\* Outer loop: the record at i opens a group as its seed.
OpenGroup ==
    /\ pc = "outer"
    /\ i <= Len(all_booths)
    /\ i \notin processed_indices
    /\ current_group' = <<i>>
    /\ processed_indices' = processed_indices \cup {i}
    /\ j' = i + 1
    /\ pc' = "inner"
    /\ UNCHANGED <<places, seen_combinations, threads, unit, raised, merger, results, all_booths, booth_groups, i, compared,
                   merged_booths, returned, statistics, prev>>

\* Inner loop: the record at j is already in a group.
SkipConsumed ==
    /\ pc = "inner"
    /\ j <= Len(all_booths)
    /\ j \in processed_indices
    /\ j' = j + 1
    /\ UNCHANGED <<places, seen_combinations, threads, unit, raised, merger, results, pc, all_booths, booth_groups, processed_indices,
                   current_group, i, compared, merged_booths, returned,
                   statistics, prev>>

\* The inner loop without processed_indices.add(j).
Compare_no_mark ==
    /\ pc = "inner"
    /\ j <= Len(all_booths)
    /\ j \notin processed_indices
    /\ compared' = compared \cup {<<i, j>>}
    /\ IF duplicate_table[merger.similarity_threshold][booth1][booth2]
       THEN current_group' = Append(current_group, j)
       ELSE UNCHANGED current_group
    /\ j' = j + 1
    /\ UNCHANGED <<places, seen_combinations, threads, unit, raised, merger, results, pc, all_booths, booth_groups, processed_indices, i,
                   merged_booths, returned, statistics, prev>>

\* Inner loop: the record at j is tested against the seed and joins its group or not.
Compare ==
    /\ pc = "inner"
    /\ j <= Len(all_booths)
    /\ j \notin processed_indices
    /\ compared' = compared \cup {<<i, j>>}
    /\ IF raises_table[merger.similarity_threshold][booth1][booth2]
       THEN /\ raised' = "AttributeError"
            /\ pc' = "raised"
            /\ UNCHANGED <<current_group, processed_indices, j>>
       ELSE /\ IF duplicate_table[merger.similarity_threshold][booth1][booth2]
               THEN /\ current_group' = Append(current_group, j)
                    /\ processed_indices' = processed_indices \cup {j}
               ELSE UNCHANGED <<current_group, processed_indices>>
            /\ j' = j + 1
            /\ UNCHANGED <<raised, pc>>
    /\ UNCHANGED <<places, seen_combinations, threads, unit, merger, results, all_booths, booth_groups, i, merged_booths,
                   returned, statistics, prev>>

\* A close that puts the group before the groups closed earlier.
CloseGroup_prepend ==
    /\ pc = "inner"
    /\ j > Len(all_booths)
    /\ booth_groups' = <<current_group>> \o booth_groups
    /\ i' = i + 1
    /\ pc' = "outer"
    /\ UNCHANGED <<places, seen_combinations, threads, unit, raised, merger, results, all_booths, processed_indices, current_group, j,
                   compared, merged_booths, returned, statistics, prev>>

\* The inner loop is over: the group is closed.
CloseGroup ==
    /\ pc = "inner"
    /\ j > Len(all_booths)
    /\ booth_groups' = Append(booth_groups, current_group)
    /\ i' = i + 1
    /\ pc' = "outer"
    /\ UNCHANGED <<places, seen_combinations, threads, unit, raised, merger, results, all_booths, processed_indices, current_group, j,
                   compared, merged_booths, returned, statistics, prev>>

\* The sweep is over: every group is resolved, and the call returns.
MergeGroups ==
    /\ pc = "outer"
    /\ i > Len(all_booths)
    /\ IF \E g \in 1..Len(booth_groups) : _merge_booth_data_raises(members(booth_groups[g]))
       THEN /\ raised' = "AttributeError"
            /\ pc' = "raised"
            /\ UNCHANGED <<merged_booths, returned, all_booths, results>>
       ELSE /\ merged_booths' = merge_groups(booth_groups, 1)
            /\ all_booths' = records_after(booth_groups)
            /\ results' = write_back(results, all_booths')
            /\ returned' = <<ExtractionResult(Len(merged_booths'), merged_booths')>>
            /\ pc' = "returned"
            /\ UNCHANGED raised
    /\ UNCHANGED <<places, seen_combinations, threads, unit, merger, booth_groups, processed_indices,
                   current_group, i, j, compared, statistics, prev>>

\* The caller asks for the statistics of the call that returned.
GetMergeStatistics ==
    /\ pc = "returned"
    /\ IF ~is_list(results)
       THEN /\ raised' = "TypeError"
            /\ pc' = "raised"
            /\ UNCHANGED statistics
       ELSE /\ statistics' = <<get_merge_statistics(results, returned[1])>>
            /\ pc' = "done"
            /\ UNCHANGED raised
    /\ UNCHANGED <<places, seen_combinations, threads, unit, merger, results, locals, returned, prev>>

\* The caller merges the same two batches again, in the other order.
SwapCall ==
    /\ pc = "done"
    /\ Len(results) = 2
    /\ prev = <<>>
    /\ prev' = <<[results |-> results, returned |-> returned[1],
                  statistics |-> statistics[1]]>>
    /\ results' = <<results[2], results[1]>>
    /\ pc' = "call"
    /\ all_booths' = <<>>
    /\ booth_groups' = <<>>
    /\ processed_indices' = {}
    /\ current_group' = <<>>
    /\ i' = 0
    /\ j' = 0
    /\ compared' = {}
    /\ merged_booths' = <<>>
    /\ returned' = <<>>
    /\ statistics' = <<>>
    /\ caller' = [caller EXCEPT !.results = results']
    /\ UNCHANGED <<suspended, instances, unit, raised, merger, seen_combinations, places>>

Next ==
    \/ Call
    \/ SkipProcessed
    \/ OpenGroup
    \/ SkipConsumed
    \/ Compare
    \/ CloseGroup
    \/ MergeGroups
    \/ GetMergeStatistics
    \/ SwapCall

Spec == Init /\ [][Next]_vars

(***************************************************************************)
(* The calls with malformed input: records whose fields are None or empty, *)
(* and arguments that are no list.  After a call on a list the caller      *)
(* merges the same batches again with every None replaced by "".           *)
(***************************************************************************)
MalformedLists == UNION {[1..n -> MalformedPool] : n \in 0..MaxRecords}

InitMalformed ==
    /\ merger \in {ResultMerger(th) : th \in Thresholds}
    /\ \/ \E f \in MalformedLists : \E c \in 0..Len(f) : \E n \in BatchCounts :
              results = batches_of(f, c, n)
       \/ \E argument \in NonListArguments : results = argument
    /\ pc = "call"
    /\ all_booths = <<>>
    /\ booth_groups = <<>>
    /\ processed_indices = {}
    /\ current_group = <<>>
    /\ i = 0
    /\ j = 0
    /\ compared = {}
    /\ merged_booths = <<>>
    /\ returned = <<>>
    /\ statistics = <<>>
    /\ prev = <<>>
    /\ unit = no_call
    /\ raised = ""
    /\ caller = began(1, 1, merger, results)
    /\ suspended = <<>>
    /\ instances = <<merger>>
    /\ seen_combinations = {}
    /\ company_names = <<>>
    /\ max_concurrent = 0
    /\ semaphore = 0
    /\ tasks = <<>>

\* The caller merges the same batches again, every None replaced by "".
BlankCall ==
    /\ pc = "done"
    /\ prev = <<>>
    /\ prev' = <<[results |-> results, returned |-> returned[1],
                  statistics |-> statistics[1], booth_groups |-> booth_groups]>>
    /\ results' = blank_results(results)
    /\ pc' = "call"
    /\ all_booths' = <<>>
    /\ booth_groups' = <<>>
    /\ processed_indices' = {}
    /\ current_group' = <<>>
    /\ i' = 0
    /\ j' = 0
    /\ compared' = {}
    /\ merged_booths' = <<>>
    /\ returned' = <<>>
    /\ statistics' = <<>>
    /\ caller' = [caller EXCEPT !.results = results']
    /\ UNCHANGED <<suspended, instances, unit, raised, merger, seen_combinations, places>>

NextMalformed ==
    \/ Call
    \/ SkipProcessed
    \/ OpenGroup
    \/ SkipConsumed
    \/ Compare
    \/ CloseGroup
    \/ MergeGroups
    \/ GetMergeStatistics
    \/ BlankCall

SpecMalformed == InitMalformed /\ [][NextMalformed]_vars

(***************************************************************************)
(* Two calls, interleaved.  Each call has its own frame: its arguments,    *)
(* its position and its locals.  One call runs; the frame of the other is  *)
(* suspended.  The two calls run on one ResultMerger or on two, which may  *)
(* have different thresholds; the running call reads self from instances   *)
(* when it is resumed and what it did to self is seen by the other call.   *)
(***************************************************************************)
\* The records of the first call, and those of the second, which is one record
\* shorter to keep the two calls together within reach.
ConcurrentLists == UNION {[1..n -> ConcurrentPool] : n \in 0..MaxRecords}

ShorterLists == UNION {[1..n -> ConcurrentPool] : n \in 0..(MaxRecords - 1)}

\* The frame of a call that has not started.
new_frame(began_as) ==
    [caller |-> began_as, results |-> began_as.results, pc |-> "call",
     all_booths |-> <<>>, booth_groups |-> <<>>, processed_indices |-> {},
     current_group |-> <<>>, i |-> 0, j |-> 0, compared |-> {}, merged_booths |-> <<>>,
     returned |-> <<>>, statistics |-> <<>>, raised |-> ""]

\* The frame of the running call.
running_frame ==
    [caller |-> caller, results |-> results, pc |-> pc,
     all_booths |-> all_booths, booth_groups |-> booth_groups,
     processed_indices |-> processed_indices, current_group |-> current_group,
     i |-> i, j |-> j, compared |-> compared, merged_booths |-> merged_booths,
     returned |-> returned, statistics |-> statistics, raised |-> raised]

InitConcurrent ==
    /\ \E th1 \in Configurations : \E th2 \in Configurations : \E shared \in BOOLEAN :
       \E f1 \in ConcurrentLists : \E f2 \in ShorterLists :
           /\ shared => th1 = th2
           /\ instances = IF shared THEN <<ResultMerger(th1)>>
                          ELSE <<ResultMerger(th1), ResultMerger(th2)>>
           /\ merger = ResultMerger(th1)
           /\ results = <<make_result(f1)>>
           /\ caller = began(1, 1, ResultMerger(th1), <<make_result(f1)>>)
           /\ suspended = <<new_frame(began(2, IF shared THEN 1 ELSE 2, ResultMerger(th2),
                                             <<make_result(f2)>>))>>
    /\ pc = "call"
    /\ all_booths = <<>>
    /\ booth_groups = <<>>
    /\ processed_indices = {}
    /\ current_group = <<>>
    /\ i = 0
    /\ j = 0
    /\ compared = {}
    /\ merged_booths = <<>>
    /\ returned = <<>>
    /\ statistics = <<>>
    /\ prev = <<>>
    /\ unit = no_call
    /\ raised = ""
    /\ seen_combinations = {}
    /\ company_names = <<>>
    /\ max_concurrent = 0
    /\ semaphore = 0
    /\ tasks = <<>>

\* The running call is suspended where it stands and the other call goes on.
Switch ==
    /\ suspended # <<>>
    /\ instances' = [instances EXCEPT ![caller.instance] = merger]
    /\ suspended' = <<running_frame>>
    /\ caller' = suspended[1].caller
    /\ merger' = instances'[suspended[1].caller.instance]
    /\ results' = suspended[1].results
    /\ pc' = suspended[1].pc
    /\ all_booths' = suspended[1].all_booths
    /\ booth_groups' = suspended[1].booth_groups
    /\ processed_indices' = suspended[1].processed_indices
    /\ current_group' = suspended[1].current_group
    /\ i' = suspended[1].i
    /\ j' = suspended[1].j
    /\ compared' = suspended[1].compared
    /\ merged_booths' = suspended[1].merged_booths
    /\ returned' = suspended[1].returned
    /\ statistics' = suspended[1].statistics
    /\ raised' = suspended[1].raised
    /\ UNCHANGED <<unit, prev, seen_combinations, places>>

NextConcurrent ==
    \/ Call
    \/ SkipProcessed
    \/ OpenGroup
    \/ SkipConsumed
    \/ Compare
    \/ CloseGroup
    \/ MergeGroups
    \/ GetMergeStatistics
    \/ Switch

SpecConcurrent == InitConcurrent /\ [][NextConcurrent]_vars

(***************************************************************************)
(* The helpers of the class, each called on its own with arguments drawn   *)
(* from bounded sets.  A str argument is the sequence of its characters.   *)
(***************************************************************************)
\* The records a group may hold: those of the batches, a record with nothing but a
\* size, and records with blank or padded fields.
ResolvePool ==
    BoothPool \cup { BoothData("", "", "5m"),
                     BoothData("ab co", "", " "),
                     BoothData(" AB ", "", "") }

\* _merge_booth_data is called with a non-empty list.
Groups == UNION {[1..n -> ResolvePool] : n \in 1..MaxGroup}

\* The company names a helper is called with (ASCII only).
NamePool ==
    { "", "***", "n/a", " AB ", "AB", "abd", "ABCDEFG", "xbcdefg", "ENVO", "ENVO I",
      "ENVO INTERNATIONAL", "ENVX", "Acme", "ACME CORP.", "ACME CORP", "Acme Corp.",
      "Acme Inc", "-Acme-", "A&B  Co.", "Cisco", "Beta", "Beta Group", "Beta\t",
      "ab co", "ab group", "ab groups" }

\* The arguments of _normalize_company_name: None, a name, a name followed by a
\* legal suffix in lower case or in upper case.
NormalizeInputs ==
    {None}
    \cup {Chars(x) : x \in NamePool}
    \cup {Chars(x) \o Chars(suffixes[k]) : x \in NamePool, k \in DOMAIN suffixes}
    \cup {Chars(x) \o upper(Chars(suffixes[k])) : x \in NamePool, k \in DOMAIN suffixes}

\* The booth numbers a helper is called with.
BoothNumberPool ==
    { "", " ", "A1", "a-1", "A-1", "a 1", "a_1 ", "B2", "Hall-5-123", " AB ", "AB" }

BoothNumberInputs == {None} \cup {Chars(x) : x \in BoothNumberPool}

\* The arguments of _calculate_similarity: None or a name.
NameInputs == {None} \cup {Chars(x) : x \in NamePool}

main_vars == <<merger, results, pc, locals, returned, statistics, prev, raised, threads,
               seen_combinations, places>>

\* No merge is running while a helper is called on its own.
no_merge ==
    /\ merger \in {ResultMerger(th) : th \in Thresholds}
    /\ results = <<>>
    /\ pc = "unit"
    /\ all_booths = <<>>
    /\ booth_groups = <<>>
    /\ processed_indices = {}
    /\ current_group = <<>>
    /\ i = 0
    /\ j = 0
    /\ compared = {}
    /\ merged_booths = <<>>
    /\ returned = <<>>
    /\ statistics = <<>>
    /\ prev = <<>>
    /\ raised = ""
    /\ caller = began(1, 1, merger, results)
    /\ suspended = <<>>
    /\ instances = <<merger>>
    /\ seen_combinations = {}
    /\ company_names = <<>>
    /\ max_concurrent = 0
    /\ semaphore = 0
    /\ tasks = <<>>

InitUnit ==
    /\ no_merge
    /\ \/ \E booths \in Groups : unit = helper_call("_merge_booth_data", <<booths>>)
       \/ \E name \in NormalizeInputs : unit = helper_call("_normalize_company_name", <<name>>)
       \/ \E booth \in BoothNumberInputs : unit = helper_call("_normalize_booth_number", <<booth>>)
       \/ \E str1 \in NameInputs : \E str2 \in NameInputs :
              unit = helper_call("_calculate_similarity", <<str1, str2>>)
       \/ \E short_name \in NamePool : \E long_name \in NamePool :
              unit = helper_call("_is_fragment_of", <<Chars(short_name), Chars(long_name)>>)

\* The call is pending: the helper has its arguments and has not returned.
pending(fn) == pc = "unit" /\ unit.fn = fn /\ unit.out = <<>>

\* The call has returned.
returned_from(fn) == pc = "unit" /\ unit.fn = fn /\ unit.out # <<>>

Call_merge_booth_data ==
    /\ pending("_merge_booth_data")
    /\ unit' = [unit EXCEPT !.out = <<_merge_booth_data(unit.args[1])>>]
    /\ UNCHANGED main_vars

Call_is_fragment_of ==
    /\ pending("_is_fragment_of")
    /\ unit' = [unit EXCEPT !.out = <<_is_fragment_of(unit.args[1], unit.args[2])>>]
    /\ UNCHANGED main_vars

Call_normalize_company_name ==
    /\ pending("_normalize_company_name")
    /\ unit' = [unit EXCEPT !.out = <<_normalize_company_name(unit.args[1])>>]
    /\ UNCHANGED main_vars

Call_normalize_booth_number ==
    /\ pending("_normalize_booth_number")
    /\ unit' = [unit EXCEPT !.out = <<_normalize_booth_number(unit.args[1])>>]
    /\ UNCHANGED main_vars

Call_calculate_similarity ==
    /\ pending("_calculate_similarity")
    /\ unit' = [unit EXCEPT !.out = <<_calculate_similarity(unit.args[1], unit.args[2])>>]
    /\ UNCHANGED main_vars

NextUnit ==
    \/ Call_merge_booth_data
    \/ Call_is_fragment_of
    \/ Call_normalize_company_name
    \/ Call_normalize_booth_number
    \/ Call_calculate_similarity

SpecUnit == InitUnit /\ [][NextUnit]_vars

(***************************************************************************)
(* utils/merger.py: the static merge_extraction_results main.py calls.  It *)
(* keeps the stripped fields of a record as new str values, which the      *)
(* model holds as their characters.                                        *)
(***************************************************************************)
\* The code point of a character; str values compare by code points.
ord(c) ==
    IF \E k \in DOMAIN UpperCase : UpperCase[k] = c
    THEN 64 + (CHOOSE k \in DOMAIN UpperCase : UpperCase[k] = c)
    ELSE IF \E k \in DOMAIN LowerCase : LowerCase[k] = c
    THEN 96 + (CHOOSE k \in DOMAIN LowerCase : LowerCase[k] = c)
    ELSE (("0" :> 48) @@ ("1" :> 49) @@ ("2" :> 50) @@ ("3" :> 51) @@ ("4" :> 52) @@
          ("5" :> 53) @@ ("6" :> 54) @@ ("7" :> 55) @@ ("8" :> 56) @@ ("9" :> 57) @@
          ("\t" :> 9) @@ ("\n" :> 10) @@ (" " :> 32) @@ ("&" :> 38) @@ ("*" :> 42) @@
          ("-" :> 45) @@ ("." :> 46) @@ ("/" :> 47) @@ (":" :> 58) @@ ("_" :> 95))[c]

\* a < b on str values.
RECURSIVE str_lt(_, _)
str_lt(a, b) ==
    IF b = <<>> THEN FALSE
    ELSE IF a = <<>> THEN TRUE
    ELSE IF a[1] # b[1] THEN ord(a[1]) < ord(b[1])
    ELSE str_lt(Tail(a), Tail(b))

\* None, as a batch or as a record of a batch.
NoneValue == [py_type |-> "NoneType", value |-> 0]

is_none(x) == "py_type" \in DOMAIN x

\* (field or "")
or_empty(field) == IF truthy(field) THEN Chars(field) ELSE <<>>

\* f"company:{company.lower()}"
dedup_key(company) == Chars("company:") \o lower(company)

\* f"{company.lower()}:{booth_num.lower()}"
combo_key(company, booth_num) == lower(company) \o Chars(":") \o lower(booth_num)

\* The names that stand for no company.
no_company == {Chars(""), Chars("none"), Chars("null"), Chars("n/a")}

\* (x.booth or "", x.company_name or ""): a < b on the keys of two kept records.
key_lt(a, b) ==
    \/ str_lt(a.booth, b.booth)
    \/ a.booth = b.booth /\ str_lt(a.company_name, b.company_name)

\* sorted(all_booths, key=...): stable, the first k records in ascending order.
RECURSIVE sorted(_, _)
sorted(booths, k) ==
    IF k = 0 THEN <<>>
    ELSE LET before == sorted(booths, k - 1)
             at == Cardinality({h \in 1..Len(before) : ~key_lt(booths[k], before[h])})
         IN  SubSeq(before, 1, at) \o <<booths[k]>> \o SubSeq(before, at + 1, Len(before))

\* The records and the None entries of the batches main.py hands over.
UtilsPool ==
    { BoothData("AB", "A1", ""),
      BoothData(" AB ", "B2", "5m"),
      BoothData("company", "AB", ""),
      BoothData("company", "B2", ""),
      BoothData("N/A", "A1", ""),
      BoothData(NoneField, "A1", NoneField),
      BoothData("Acme", NoneField, ""),
      NoneValue }

UtilsLists == UNION {[1..n -> UtilsPool] : n \in 0..MaxRecords}

\* A batch whose total_booths counts its records.
utils_result(booths) == ExtractionResult(Len(booths), booths)

InitUtils ==
    /\ \E f \in UtilsLists : \E c \in 0..Len(f) : \E n \in 1..3 :
           results = IF n = 1 THEN <<utils_result(f)>>
                     ELSE IF n = 2
                     THEN <<utils_result(SubSeq(f, 1, c)), utils_result(SubSeq(f, c + 1, Len(f)))>>
                     ELSE <<utils_result(SubSeq(f, 1, c)), NoneValue,
                            utils_result(SubSeq(f, c + 1, Len(f)))>>
    /\ merger = ResultMerger(DefaultThreshold)
    /\ pc = "call"
    /\ all_booths = <<>>
    /\ booth_groups = <<>>
    /\ processed_indices = {}
    /\ current_group = <<>>
    /\ i = 0
    /\ j = 0
    /\ compared = {}
    /\ merged_booths = <<>>
    /\ returned = <<>>
    /\ statistics = <<>>
    /\ prev = <<>>
    /\ unit = no_call
    /\ raised = ""
    /\ caller = began(1, 1, merger, results)
    /\ suspended = <<>>
    /\ instances = <<merger>>
    /\ seen_combinations = {}
    /\ company_names = <<>>
    /\ max_concurrent = 0
    /\ semaphore = 0
    /\ tasks = <<>>

utils_frame == <<merger, booth_groups, processed_indices, current_group, compared,
                 merged_booths, statistics, prev, unit, raised, threads, places>>

\* Entry: the empty list and the empty set.
UtilsCall ==
    /\ pc = "call"
    /\ all_booths' = <<>>
    /\ seen_combinations' = {}
    /\ i' = 1
    /\ j' = 1
    /\ pc' = "for_result"
    /\ UNCHANGED <<results, returned, utils_frame>>

\* A batch that is None is passed over.
UtilsSkipResult ==
    /\ pc = "for_result"
    /\ i <= Len(results)
    /\ is_none(results[i])
    /\ i' = i + 1
    /\ j' = 1
    /\ UNCHANGED <<results, pc, all_booths, seen_combinations, returned, utils_frame>>

\* The records of the batch are through: the next batch.
UtilsNextResult ==
    /\ pc = "for_result"
    /\ i <= Len(results)
    /\ ~is_none(results[i])
    /\ j > Len(results[i].booths)
    /\ i' = i + 1
    /\ j' = 1
    /\ UNCHANGED <<results, pc, all_booths, seen_combinations, returned, utils_frame>>

\* One record: passed over when it is None, has no company or has a key that was
\* seen; kept otherwise, with its fields stripped.
UtilsBooth ==
    /\ pc = "for_result"
    /\ i <= Len(results)
    /\ ~is_none(results[i])
    /\ j <= Len(results[i].booths)
    /\ LET booth == results[i].booths[j]
           company == strip(or_empty(booth.company_name), Whitespace)
           booth_num == strip(or_empty(booth.booth), Whitespace)
           size == strip(or_empty(booth.size), Whitespace)
       IN  IF is_none(booth)
           THEN UNCHANGED <<all_booths, seen_combinations>>
           ELSE IF company = <<>> \/ strip(lower(company), Whitespace) \in no_company
           THEN UNCHANGED <<all_booths, seen_combinations>>
           ELSE IF dedup_key(company) \notin seen_combinations
                   /\ combo_key(company, booth_num) \notin seen_combinations
           THEN /\ all_booths' = Append(all_booths, BoothData(company, booth_num, size))
                /\ seen_combinations' = seen_combinations
                       \cup {dedup_key(company), combo_key(company, booth_num)}
           ELSE UNCHANGED <<all_booths, seen_combinations>>
    /\ j' = j + 1
    /\ UNCHANGED <<results, pc, i, returned, utils_frame>>

\* The batches are through: the kept records are sorted and returned.
UtilsReturn ==
    /\ pc = "for_result"
    /\ i > Len(results)
    /\ LET sorted_booths == sorted(all_booths, Len(all_booths))
       IN  returned' = <<ExtractionResult(Len(sorted_booths), sorted_booths)>>
    /\ pc' = "done"
    /\ UNCHANGED <<results, all_booths, seen_combinations, i, j, utils_frame>>

NextUtils ==
    \/ UtilsCall
    \/ UtilsSkipResult
    \/ UtilsNextResult
    \/ UtilsBooth
    \/ UtilsReturn

SpecUtils == InitUtils /\ [][NextUtils]_vars

(***************************************************************************)
(* places_service.py: enrich_companies_batch.  One enrich_single coroutine *)
(* for each name; the event loop runs them in any order and switches at    *)
(* every await: the semaphore, the lookup, the sleep.                      *)
(***************************************************************************)
\* max_concurrent: int = 3
DefaultMaxConcurrent == 3

CompanyNames == {"Acme", "AB"}

NameLists == UNION {[1..n -> CompanyNames] : n \in 0..MaxRecords}

\* What search_company returns: a PlacesData or None.
Found == "PlacesData"

NotFound == "None"

\* A coroutine that was created and has not run.
enrich_single(company_name) ==
    [company_name |-> company_name, at |-> "created", places_data |-> NotFound, result |-> <<>>]

InitPlaces ==
    /\ company_names \in NameLists
    /\ max_concurrent \in 1..DefaultMaxConcurrent
    /\ semaphore = 0
    /\ tasks = <<>>
    /\ merger = ResultMerger(DefaultThreshold)
    /\ results = <<>>
    /\ pc = "call"
    /\ all_booths = <<>>
    /\ booth_groups = <<>>
    /\ processed_indices = {}
    /\ current_group = <<>>
    /\ i = 0
    /\ j = 0
    /\ compared = {}
    /\ merged_booths = <<>>
    /\ returned = <<>>
    /\ statistics = <<>>
    /\ prev = <<>>
    /\ unit = no_call
    /\ raised = ""
    /\ caller = began(1, 1, merger, results)
    /\ suspended = <<>>
    /\ instances = <<merger>>
    /\ seen_combinations = {}

places_frame == <<merger, results, locals, statistics, prev, unit, raised, threads,
                  seen_combinations>>

\* Entry: no names give {}; otherwise the semaphore and the coroutines are made and
\* gather waits for them.
EnrichCall ==
    /\ pc = "call"
    /\ IF company_names = <<>>
       THEN /\ returned' = <<[name \in {} |-> NotFound]>>
            /\ pc' = "done"
            /\ UNCHANGED <<semaphore, tasks>>
       ELSE /\ semaphore' = max_concurrent
            /\ tasks' = [k \in 1..Len(company_names) |-> enrich_single(company_names[k])]
            /\ pc' = "gather"
            /\ UNCHANGED returned
    /\ UNCHANGED <<company_names, max_concurrent, places_frame>>

\* async with semaphore: a slot is free and the coroutine takes it.
Acquire(task) ==
    /\ pc = "gather"
    /\ tasks[task].at = "created"
    /\ semaphore > 0
    /\ semaphore' = semaphore - 1
    /\ tasks' = [tasks EXCEPT ![task].at = "search_company"]
    /\ UNCHANGED <<company_names, max_concurrent, pc, returned, places_frame>>

\* search_company returns a PlacesData or None; the coroutine goes to sleep.
LookupReturns(task) ==
    /\ pc = "gather"
    /\ tasks[task].at = "search_company"
    /\ \E places_data \in {Found, NotFound} :
           tasks' = [tasks EXCEPT ![task].at = "sleep", ![task].places_data = places_data]
    /\ UNCHANGED <<company_names, max_concurrent, semaphore, pc, returned, places_frame>>

\* A lookup that raises and leaves with its slot.
LookupRaises_keeps_slot(task) ==
    /\ pc = "gather"
    /\ tasks[task].at = "search_company"
    /\ tasks' = [tasks EXCEPT ![task].at = "done",
                               ![task].result = <<tasks[task].company_name, NotFound>>]
    /\ UNCHANGED <<company_names, max_concurrent, semaphore, pc, returned, places_frame>>

\* search_company raises: except Exception returns (company_name, None), and the
\* async with gives the slot back.
LookupRaises(task) ==
    /\ pc = "gather"
    /\ tasks[task].at = "search_company"
    /\ tasks' = [tasks EXCEPT ![task].at = "done",
                               ![task].result = <<tasks[task].company_name, NotFound>>]
    /\ semaphore' = semaphore + 1
    /\ UNCHANGED <<company_names, max_concurrent, pc, returned, places_frame>>

\* The sleep is over: the coroutine returns (company_name, places_data) and the
\* async with gives the slot back.
SleepDone(task) ==
    /\ pc = "gather"
    /\ tasks[task].at = "sleep"
    /\ tasks' = [tasks EXCEPT ![task].at = "done",
                               ![task].result = <<tasks[task].company_name,
                                                  tasks[task].places_data>>]
    /\ semaphore' = semaphore + 1
    /\ UNCHANGED <<company_names, max_concurrent, pc, returned, places_frame>>

\* enrichment_data after the first k results were stored: a later result for the
\* same name replaces the earlier one.
RECURSIVE enrichment_data(_, _)
enrichment_data(gathered, k) ==
    IF k = 0 THEN [name \in {} |-> NotFound]
    ELSE LET before == enrichment_data(gathered, k - 1)
         IN  IF Len(gathered[k]) = 2
             THEN (gathered[k][1] :> gathered[k][2]) @@ before
             ELSE before

\* gather returns when every coroutine is done; the results are stored in order.
Gather ==
    /\ pc = "gather"
    /\ \A task \in 1..Len(tasks) : tasks[task].at = "done"
    /\ returned' = <<enrichment_data([k \in 1..Len(tasks) |-> tasks[k].result], Len(tasks))>>
    /\ pc' = "done"
    /\ UNCHANGED <<company_names, max_concurrent, semaphore, tasks, places_frame>>

TaskStep(task) ==
    \/ Acquire(task)
    \/ LookupReturns(task)
    \/ LookupRaises(task)
    \/ SleepDone(task)

NextPlaces ==
    \/ EnrichCall
    \/ \E task \in 1..MaxRecords : task <= Len(tasks) /\ TaskStep(task)
    \/ Gather

SpecPlaces == InitPlaces /\ [][NextPlaces]_vars

\* The event loop runs every coroutine that can go on, and a lookup and a sleep end.
SpecPlacesFair ==
    /\ SpecPlaces
    /\ \A task \in 1..MaxRecords : WF_vars(task <= Len(tasks) /\ TaskStep(task))
    /\ WF_vars(EnrichCall)
    /\ WF_vars(Gather)

(***************************************************************************)
(* Vocabulary of the properties.                                           *)
(***************************************************************************)
\* The sweep over all_booths has ended.
sweep_over ==
    /\ all_booths # <<>>
    /\ \/ pc = "outer" /\ i > Len(all_booths)
       \/ pc \in {"returned", "done"}

\* A company name that is blank or a placeholder, after trimming, whatever its case.
is_placeholder(name) ==
    lower(strip(Chars(name), Whitespace)) \in {Chars(""), Chars("none"), Chars("null"), Chars("n/a")}

\* The duplicate test the sweep applies to the records at two positions.
judged_duplicate(seed, candidate) ==
    duplicate_table[merger.similarity_threshold][all_booths[seed]][all_booths[candidate]]

\* The groups that exist: the closed ones and, inside the inner loop, the open one.
groups_so_far ==
    IF pc = "inner" THEN Append(booth_groups, current_group) ELSE booth_groups

positions_of(group) == {group[k] : k \in 1..Len(group)}

RECURSIVE sum_of_lengths(_, _)
sum_of_lengths(groups, k) ==
    IF k > Len(groups) THEN 0 ELSE Len(groups[k]) + sum_of_lengths(groups, k + 1)

\* The company and booth identities of a merged result: its (company_name, booth)
\* pairs, each field under its normalisation, so that A-1 and a 1 are one booth.
identities(result) ==
    {<<_normalize_company_name(Chars(result.booths[k].company_name)),
       _normalize_booth_number(Chars(result.booths[k].booth))>> : k \in 1..Len(result.booths)}

(***************************************************************************)
(* C1.  No record of the output of merge_extraction_results has a company  *)
(* name that is blank or one of the placeholders none, null, n/a after     *)
(* trimming, in any case; merging the one batch [{n/a, A1, ''}] gives      *)
(* merged_total = 0.                                                       *)
(***************************************************************************)
C1_NoPlaceholderInOutput ==
    pc = "done" =>
        /\ \A k \in 1..Len(returned[1].booths) :
               ~is_placeholder(returned[1].booths[k].company_name)
        /\ results = <<make_result(<<BoothData("n/a", "A1", "")>>)>>
               => statistics[1].merged_total = 0

(***************************************************************************)
(* C2.  When the sweep has ended the groups are a partition of the         *)
(* flattened input: every position is in exactly one group, exactly once,  *)
(* no group is empty, and the sizes of the groups sum to the number of     *)
(* records.                                                                *)
(***************************************************************************)
C2_GroupsPartitionInput ==
    sweep_over =>
        /\ \A x \in 1..Len(all_booths) :
               /\ Cardinality({g \in 1..Len(booth_groups) : x \in positions_of(booth_groups[g])}) = 1
               /\ \A g \in 1..Len(booth_groups) :
                      Cardinality({k \in 1..Len(booth_groups[g]) : booth_groups[g][k] = x}) <= 1
        /\ \A g \in 1..Len(booth_groups) :
               /\ Len(booth_groups[g]) >= 1
               /\ positions_of(booth_groups[g]) \subseteq 1..Len(all_booths)
        /\ sum_of_lengths(booth_groups, 1) = Len(all_booths)

\* The sweep ended with several groups, one of them holding several records.
C2_Witness ==
    /\ sweep_over
    /\ Len(booth_groups) >= 2
    /\ \E g \in 1..Len(booth_groups) : Len(booth_groups[g]) >= 2

(***************************************************************************)
(* C3.  k >= 1 copies of one record with a non-empty company name, spread  *)
(* over the batches, merge to exactly one record, and the statistics       *)
(* report duplicates_removed = k - 1.                                      *)
(***************************************************************************)
C3_ExactDuplicatesCollapse ==
    ( /\ pc = "done"
      /\ all_booths # <<>>
      /\ \A k \in 1..Len(all_booths) : all_booths[k] = all_booths[1]
      /\ truthy(all_booths[1].company_name) )
    => /\ Len(returned[1].booths) = 1
       /\ statistics[1].duplicates_removed = Len(all_booths) - 1

(***************************************************************************)
(* C4.  As claimed: merging a single batch in which no record is judged a  *)
(* duplicate of an earlier one returns as many records as were input:      *)
(* merged_total = original_total and duplicates_removed = 0.               *)
(***************************************************************************)
no_duplicates_in_input ==
    \A a \in 1..Len(all_booths) : \A b \in (a + 1)..Len(all_booths) : ~judged_duplicate(a, b)

C4_DuplicateFreeBatchKeepsAll ==
    ( /\ pc = "done"
      /\ Len(results) = 1
      /\ no_duplicates_in_input )
    => /\ statistics[1].merged_total = statistics[1].original_total
       /\ statistics[1].duplicates_removed = 0

(***************************************************************************)
(* C4, amended.  The same, for a batch in which every record also has a    *)
(* non-empty company name (a record without one is dropped by design).     *)
(***************************************************************************)
C4_DuplicateFreeNamedBatchKeepsAll ==
    ( /\ pc = "done"
      /\ Len(results) = 1
      /\ no_duplicates_in_input
      /\ \A k \in 1..Len(all_booths) : truthy(all_booths[k].company_name) )
    => /\ statistics[1].merged_total = statistics[1].original_total
       /\ statistics[1].duplicates_removed = 0
       /\ returned[1].booths = all_booths

\* A single batch of several named records, none a duplicate, came back whole.
C4_Witness ==
    /\ pc = "done"
    /\ Len(results) = 1
    /\ Len(all_booths) >= 2
    /\ no_duplicates_in_input
    /\ \A k \in 1..Len(all_booths) : truthy(all_booths[k].company_name)
    /\ statistics[1].merged_total = Len(all_booths)

(***************************************************************************)
(* C5.  Merging [B1, B2] and merging [B2, B1] give the same set of         *)
(* resolved (company_name, booth) identities.                              *)
(***************************************************************************)
C5_BatchOrderIndependent ==
    (pc = "done" /\ prev # <<>>)
    => identities(returned[1]) = identities(prev[1].returned)

raw_similarity(seed, candidate) ==
    _calculate_similarity(Chars(all_booths[seed].company_name),
                          Chars(all_booths[candidate].company_name))

group_of_seed(seed) ==
    IF \E g \in 1..Len(groups_so_far) : groups_so_far[g][1] = seed
    THEN groups_so_far[CHOOSE g \in 1..Len(groups_so_far) : groups_so_far[g][1] = seed]
    ELSE <<>>

C8_RawSimilarityAloneGroups ==
    \A pair \in compared :
        frac_gt(raw_similarity(pair[1], pair[2]), StrictThreshold)
            => pair[2] \in positions_of(group_of_seed(pair[1]))

(***************************************************************************)
(* C9.  Seed anchoring.  Every record the sweep tested was tested against  *)
(* the seed of a group, never against another member; every other member   *)
(* of a group satisfies the duplicate rule against the seed of its group;  *)
(* and no member of a group opened later satisfies the rule against the    *)
(* seed of a group opened earlier.                                         *)
(***************************************************************************)
C9_SeedAnchored ==
    /\ \A pair \in compared :
           \E g \in 1..Len(groups_so_far) : groups_so_far[g][1] = pair[1]
    /\ \A g \in 1..Len(groups_so_far) :
           \A k \in 2..Len(groups_so_far[g]) :
               /\ judged_duplicate(groups_so_far[g][1], groups_so_far[g][k])
               /\ <<groups_so_far[g][1], groups_so_far[g][k]>> \in compared
               /\ \A m \in 2..Len(groups_so_far[g]) :
                      <<groups_so_far[g][m], groups_so_far[g][k]>> \notin compared
    /\ \A g \in 1..Len(groups_so_far) : \A h \in (g + 1)..Len(groups_so_far) :
           \A k \in 1..Len(groups_so_far[h]) :
               ~judged_duplicate(groups_so_far[g][1], groups_so_far[h][k])

\* A chain: B is in the group of A, C matches B but not A, and C is in a later group.
C9_Witness ==
    /\ sweep_over
    /\ \E g \in 1..Len(booth_groups) : \E h \in (g + 1)..Len(booth_groups) :
           \E k \in 2..Len(booth_groups[g]) : \E m \in 1..Len(booth_groups[h]) :
               /\ judged_duplicate(booth_groups[g][k], booth_groups[h][m])
               /\ ~judged_duplicate(booth_groups[g][1], booth_groups[h][m])

trimmed_len(s) == Len(strip(Chars(s), Whitespace))

\* The completeness score with 10 for a size that is not the empty string.
completeness_any_size(booth) ==
    trimmed_len(booth.company_name) + 2 * trimmed_len(booth.booth)
        + (IF booth.size # "" THEN 10 ELSE 0)

\* The completeness score with 10 for a size that is not blank.
completeness_trimmed_size(booth) ==
    trimmed_len(booth.company_name) + 2 * trimmed_len(booth.booth)
        + (IF trimmed_len(booth.size) > 0 THEN 10 ELSE 0)

\* The position of the earliest record of the highest completeness.
earliest_best(booths, completeness(_)) ==
    CHOOSE k \in 1..Len(booths) :
        /\ \A m \in 1..Len(booths) : completeness(booths[m]) <= completeness(booths[k])
        /\ \A m \in 1..(k - 1) : completeness(booths[m]) < completeness(booths[k])

\* The resolved record keeps every non-empty field of the record at position k.
built_on(resolved, booths, k) ==
    /\ truthy(booths[k].company_name) => resolved.company_name = booths[k].company_name
    /\ truthy(booths[k].booth) => resolved.booth = booths[k].booth
    /\ truthy(booths[k].size) => resolved.size = booths[k].size

(***************************************************************************)
(* C11, as claimed.  _merge_booth_data returns a single record unchanged;  *)
(* on a larger group the base is the earliest record of the highest        *)
(* score, where score = len(trimmed company_name) + 2 * len(trimmed booth) *)
(* + 10 if size is non-empty.                                              *)
(***************************************************************************)
C11_BaseIsEarliestBestAnySize ==
    returned_from("_merge_booth_data") =>
        LET booths == unit.args[1]
        IN  IF Len(booths) = 1 THEN unit.out[1] = booths[1]
            ELSE built_on(unit.out[1], booths, earliest_best(booths, completeness_any_size))

(***************************************************************************)
(* C11, amended.  The same, with 10 added to the score only if the size,   *)
(* trimmed, is non-empty: a size of blanks earns nothing.                  *)
(***************************************************************************)
C11_BaseIsEarliestBest ==
    returned_from("_merge_booth_data") =>
        LET booths == unit.args[1]
            k == earliest_best(booths, completeness_trimmed_size)
        IN  IF Len(booths) = 1 THEN unit.out[1] = booths[1]
            ELSE /\ best_of(booths, 1, booths[1], 0) = booths[k]
                 /\ built_on(unit.out[1], booths, k)

\* A group of three whose best score is reached twice, first at the second record,
\* and whose resolved record differs from the first record.
C11_Witness ==
    /\ returned_from("_merge_booth_data")
    /\ Len(unit.args[1]) = 3
    /\ earliest_best(unit.args[1], completeness_trimmed_size) = 2
    /\ completeness_trimmed_size(unit.args[1][3]) = completeness_trimmed_size(unit.args[1][2])
    /\ unit.args[1][3] # unit.args[1][2]
    /\ unit.out[1].company_name # unit.args[1][1].company_name

\* The first non-empty value of a field among the records, in order; "" if there is none.
first_nonempty(booths, field) ==
    IF \E k \in 1..Len(booths) : truthy(booths[k][field])
    THEN booths[CHOOSE k \in 1..Len(booths) :
                    /\ truthy(booths[k][field])
                    /\ \A m \in 1..(k - 1) : ~truthy(booths[m][field])][field]
    ELSE ""

Fields == {"company_name", "booth", "size"}

(***************************************************************************)
(* C12.  Field fallback: each field of the resolved record is the base's   *)
(* value when that is non-empty, otherwise the first non-empty value of    *)
(* the field among the members in group order; hence a field of the        *)
(* resolved record is empty only if it is empty in every member.           *)
(***************************************************************************)
C12_FieldFallback ==
    returned_from("_merge_booth_data") =>
        LET booths == unit.args[1]
            base == booths[earliest_best(booths, completeness_trimmed_size)]
        IN  \A field \in Fields :
                /\ unit.out[1][field] = IF truthy(base[field]) THEN base[field]
                                        ELSE first_nonempty(booths, field)
                /\ ~truthy(unit.out[1][field]) =>
                       \A k \in 1..Len(booths) : ~truthy(booths[k][field])

\* [{Acme, A1, ''}, {'', '', '5m'}]: the base is the second record, and its name and
\* booth come from the first.
C12_Witness ==
    /\ returned_from("_merge_booth_data")
    /\ unit.args[1] = <<BoothData("Acme", "A1", ""), BoothData("", "", "5m")>>
    /\ unit.out[1] = BoothData("Acme", "A1", "5m")

(***************************************************************************)
(* Vocabulary of the claims about the string helpers.                      *)
(***************************************************************************)
\* a occurs in b as a run of consecutive characters.
is_substring(a, b) ==
    \E k \in 0..(Len(b) - Len(a)) : SubSeq(b, k + 1, k + Len(a)) = a

\* The two strings have at least n characters and the same first n or the same last n.
share_ends(a, b, n) ==
    /\ Len(a) >= n
    /\ Len(b) >= n
    /\ \/ SubSeq(a, 1, n) = SubSeq(b, 1, n)
       \/ SubSeq(a, Len(a) - n + 1, Len(a)) = SubSeq(b, Len(b) - n + 1, Len(b))

(***************************************************************************)
(* C13.  _is_fragment_of(a, b) is false if either normalized name has      *)
(* fewer than 3 characters; otherwise true if one normalized name is a     *)
(* substring of the other; otherwise true if both have at least 4          *)
(* characters and share their first 4 or their last 4; otherwise false.    *)
(* Swapping the arguments does not change the result.                      *)
(***************************************************************************)
C13_FragmentRule ==
    returned_from("_is_fragment_of") =>
        LET a == _normalize_company_name(unit.args[1])
            b == _normalize_company_name(unit.args[2])
        IN  /\ unit.out[1] = IF Len(a) < 3 \/ Len(b) < 3 THEN FALSE
                             ELSE IF is_substring(a, b) \/ is_substring(b, a) THEN TRUE
                             ELSE share_ends(a, b, 4)
            /\ unit.out[1] = _is_fragment_of(unit.args[2], unit.args[1])

\* Two names of which neither contains the other and which end in the same 4 characters.
C13_Witness ==
    /\ returned_from("_is_fragment_of")
    /\ unit.out[1] = TRUE
    /\ LET a == _normalize_company_name(unit.args[1])
           b == _normalize_company_name(unit.args[2])
       IN  /\ ~is_substring(a, b)
           /\ ~is_substring(b, a)
           /\ SubSeq(a, 1, 4) # SubSeq(b, 1, 4)

\* The name as the suffix loop first sees it: trimmed of whitespace and of the noise
\* characters, in lower case.
trimmed_lower(name) ==
    strip(lower(strip(strip(strip(strip(strip(name, Whitespace), {"*"}), {"-"}), {"&"}),
                      Whitespace)),
          Whitespace)

ends_in_suffix(s) == \E k \in DOMAIN suffixes : endswith(s, Chars(suffixes[k]))

\* The words of a string: its maximal runs of letters and digits, joined by single spaces.
words(s) == join_split([k \in 1..Len(s) |-> IF isalnum(s[k]) THEN s[k] ELSE " "])

(***************************************************************************)
(* C14.  For every company name x (one whose key is not empty) and every   *)
(* legal suffix s, in either case, the key of x followed by s is the key   *)
(* of x; and a name that does not end in a legal suffix, once trimmed and  *)
(* lowercased, keeps all its words.                                        *)
(***************************************************************************)
C14_SuffixDoesNotChangeKey ==
    returned_from("_normalize_company_name") /\ unit.args[1] # None =>
        /\ \A x \in NamePool : \A k \in DOMAIN suffixes :
               /\ _normalize_company_name(Chars(x)) # <<>>
               /\ \/ unit.args[1] = Chars(x) \o Chars(suffixes[k])
                  \/ unit.args[1] = Chars(x) \o upper(Chars(suffixes[k]))
               => unit.out[1] = _normalize_company_name(Chars(x))
        /\ ~ends_in_suffix(trimmed_lower(unit.args[1])) =>
               unit.out[1] = words(trimmed_lower(unit.args[1]))

(***************************************************************************)
(* C15.  The key _normalize_company_name returns consists of lowercase     *)
(* letters, digits and single spaces only, with no space at either end and *)
(* no two spaces in a row; for None and for the empty string it is empty.  *)
(***************************************************************************)
C15_KeyIsClean ==
    returned_from("_normalize_company_name") =>
        LET key == unit.out[1]
            lowercase == {LowerCase[k] : k \in DOMAIN LowerCase}
        IN  /\ \A k \in 1..Len(key) : key[k] \in lowercase \cup Digits \cup {" "}
            /\ Len(key) > 0 => key[1] # " " /\ key[Len(key)] # " "
            /\ \A k \in 1..(Len(key) - 1) : ~(key[k] = " " /\ key[k + 1] = " ")
            /\ unit.args[1] = None \/ unit.args[1] = <<>> => key = <<>>

\* A name with capitals, punctuation and a run of blanks that gives a key of two words.
C15_Witness ==
    /\ returned_from("_normalize_company_name")
    /\ unit.args[1] = Chars("A&B  Co.") \o Chars(" group")
    /\ unit.out[1] = <<"a", " ", "b", " ", "c", "o">>

\* None gives the empty key.
C15_WitnessNone ==
    /\ returned_from("_normalize_company_name")
    /\ unit.args[1] = None
    /\ unit.out[1] = <<>>

Separators == {" ", "-", "_"}

\* What is left of a booth id without its separators and its letter case.
skeleton(s) == lower(SelectSeq(s, LAMBDA c : c \notin Separators))

(***************************************************************************)
(* C16.  _normalize_booth_number gives one key to two booth ids that       *)
(* differ only in letter case and in spaces, hyphens and underscores; its  *)
(* key holds no space, hyphen, underscore or lowercase letter; for None    *)
(* and for the empty string the key is empty.                              *)
(***************************************************************************)
C16_BoothKey ==
    returned_from("_normalize_booth_number") =>
        LET key == unit.out[1]
            lowercase == {LowerCase[k] : k \in DOMAIN LowerCase}
        IN  /\ \A k \in 1..Len(key) : key[k] \notin Separators \cup lowercase
            /\ unit.args[1] = None \/ unit.args[1] = <<>> => key = <<>>
            /\ unit.args[1] # None =>
                   \A other \in BoothNumberPool :
                       skeleton(Chars(other)) = skeleton(unit.args[1])
                           => _normalize_booth_number(Chars(other)) = key

\* 'a 1' has the key of 'A-1'.
C16_Witness ==
    /\ returned_from("_normalize_booth_number")
    /\ unit.args[1] = Chars("a 1")
    /\ unit.out[1] = <<"A", "1">>
    /\ skeleton(Chars("A-1")) = skeleton(unit.args[1])

\* Two fractions of positive denominators are the same number.
frac_eq(x, y) == x[1] * y[2] = y[1] * x[2]

\* The similarity lies in [0, 1], is 0 when an argument is empty or None, does not
\* depend on letter case, and is 1 for two strings equal but for letter case.
similarity_is_sound ==
    LET str1 == unit.args[1]
        str2 == unit.args[2]
        sim == unit.out[1]
    IN  /\ sim[2] > 0 /\ frac_ge(sim, <<0, 1>>) /\ frac_ge(<<1, 1>>, sim)
        /\ falsy(str1) \/ falsy(str2) => frac_eq(sim, <<0, 1>>)
        /\ ~falsy(str1) /\ ~falsy(str2) =>
               /\ frac_eq(sim, _calculate_similarity(upper(str1), lower(str2)))
               /\ lower(str1) = lower(str2) => frac_eq(sim, <<1, 1>>)

(***************************************************************************)
(* C17.  _calculate_similarity is symmetric, lies in [0, 1], is 0 when     *)
(* either argument is empty, ignores letter case, and is 1 for two strings *)
(* equal but for letter case.                                              *)
(***************************************************************************)
C17_SimilaritySymmetricAndSound ==
    returned_from("_calculate_similarity") =>
        /\ similarity_is_sound
        /\ frac_eq(unit.out[1], _calculate_similarity(unit.args[2], unit.args[1]))

\* The rest of C17, without the symmetry.
C17_SimilaritySound ==
    returned_from("_calculate_similarity") => similarity_is_sound

(***************************************************************************)
(* C18.  A call with no batches, or with batches that hold no records,     *)
(* returns the empty result (total_booths = 0, booths = []) without        *)
(* running the sweep, and its statistics are zero: original_total,         *)
(* merged_total, duplicates_removed are 0 and duplicate_rate is the 0 of   *)
(* the else branch, no division having taken place.                        *)
(***************************************************************************)
C18_EmptyInputGivesEmptyResult ==
    pc \in {"returned", "done"} /\ flatten(results, 1) = <<>> =>
        /\ returned[1] = ExtractionResult(0, <<>>)
        /\ booth_groups = <<>> /\ compared = {}
        /\ pc = "done" =>
               /\ statistics[1].original_total = 0
               /\ statistics[1].merged_total = 0
               /\ statistics[1].duplicates_removed = 0
               /\ statistics[1].duplicate_rate = <<0, 1>>

\* Two batches without a record were merged and the statistics computed.
C18_Witness ==
    /\ pc = "done"
    /\ Len(results) = 2
    /\ flatten(results, 1) = <<>>
    /\ statistics[1].sources_merged = 2

\* No batch at all was merged and the statistics computed.
C18_WitnessNoBatch ==
    /\ pc = "done"
    /\ results = <<>>
    /\ returned[1].booths = <<>>

C20_NonListIsInvalidInput ==
    ~is_list(results) =>
        /\ returned = <<>>
        /\ pc = "raised" => raised = "InvalidInput"

(***************************************************************************)
(* C27.  _normalize_company_name is idempotent: the key it returns is its  *)
(* own key, for every name.                                                *)
(***************************************************************************)
C27_NormalizeIdempotent ==
    returned_from("_normalize_company_name") =>
        _normalize_company_name(unit.out[1]) = unit.out[1]

\* The groups whose resolved record has a company name.
named_groups ==
    {g \in 1..Len(booth_groups) :
        truthy(_merge_booth_data(members(booth_groups[g])).company_name)}

(***************************************************************************)
(* C26.  The result of merge_extraction_results has total_booths equal to  *)
(* the length of booths, one record for each group whose resolved record   *)
(* has a non-empty company_name, and no more records than the input.       *)
(***************************************************************************)
C26_ResultCountsNamedGroups ==
    pc \in {"returned", "done"} =>
        /\ returned[1].total_booths = Len(returned[1].booths)
        /\ Len(returned[1].booths) = Cardinality(named_groups)
        /\ Len(returned[1].booths) <= Len(flatten(results, 1))

\* A call has returned with a group that gave a record, a group that gave none, and
\* fewer records than the input had.
C26_Witness ==
    /\ pc = "done"
    /\ named_groups # {}
    /\ named_groups # 1..Len(booth_groups)
    /\ Len(returned[1].booths) < Len(flatten(results, 1)) - 1

\* The input keeps its order in all_booths, the groups and their members stand in
\* increasing positions, and the records of a result follow the order of their groups.
groups_in_opening_order ==
    /\ all_booths # <<>> =>
           \A b \in 1..Len(results) : \A m \in 1..Len(results[b].booths) :
               all_booths[input_index(results, b, m)] = results[b].booths[m]
    /\ \A g \in 1..Len(groups_so_far) :
           \A k \in 1..(Len(groups_so_far[g]) - 1) :
               groups_so_far[g][k] < groups_so_far[g][k + 1]
    /\ \A g \in 1..(Len(groups_so_far) - 1) :
           groups_so_far[g][1] < groups_so_far[g + 1][1]
    /\ pc \in {"returned", "done"} =>
           LET resolved == [g \in 1..Len(booth_groups) |->
                               _merge_booth_data(members(booth_groups[g]))]
               named == {g \in 1..Len(booth_groups) : truthy(resolved[g].company_name)}
           IN  /\ Len(returned[1].booths) = Cardinality(named)
               /\ \A g \in named :
                      returned[1].booths[Cardinality({h \in named : h <= g})] = resolved[g]

(***************************************************************************)
(* C22.  The flattened input keeps batch order and, inside a batch, the    *)
(* order of the batch.  Groups stand in the order they were opened: the    *)
(* seed of a group is its lowest position, successive seeds increase, the  *)
(* members of a group increase, and the output records follow the order of *)
(* their groups.                                                           *)
(***************************************************************************)
C22_GroupsInOpeningOrder == []groups_in_opening_order

\* Two batches were merged into two records, the first from a group of several records
\* whose members are not neighbours in the input, the second from a later group.
C22_Witness ==
    /\ pc = "done"
    /\ Len(results) = 2 /\ results[1].booths # <<>> /\ results[2].booths # <<>>
    /\ Len(returned[1].booths) = 2
    /\ booth_groups = <<<<1, 3>>, <<2>>>>
    /\ returned[1].booths[1] # returned[1].booths[2]

\* Two tested positions whose company keys are equal and at least 3 characters long,
\* and whose booth ids are non-empty and different.
same_company_other_booth(seed, candidate) ==
    LET key1 == company_key_table[all_booths[seed]]
        key2 == company_key_table[all_booths[candidate]]
    IN  /\ key1 = key2
        /\ Len(key1) >= 3
        /\ truthy(all_booths[seed].booth)
        /\ truthy(all_booths[candidate].booth)
        /\ all_booths[seed].booth # all_booths[candidate].booth

\* Every tested pair with the same company key and different booth ids is in the group
\* of its seed, and that group gives one record with one of the booth ids of the group.
same_company_joins_seed ==
    \A pair \in compared :
        same_company_other_booth(pair[1], pair[2]) =>
            \E g \in 1..Len(groups_so_far) :
                /\ groups_so_far[g][1] = pair[1]
                /\ pair[2] \in positions_of(groups_so_far[g])
                /\ pc \in {"returned", "done"} =>
                       LET resolved == _merge_booth_data(members(booth_groups[g]))
                       IN  /\ g \in named_groups
                           /\ returned[1].booths[Cardinality({h \in named_groups : h <= g})] = resolved
                           /\ Len(returned[1].booths) = Cardinality(named_groups)
                           /\ \E k \in 1..Len(booth_groups[g]) :
                                  resolved.booth = all_booths[booth_groups[g][k]].booth
                           /\ \/ resolved.booth # all_booths[pair[1]].booth
                              \/ resolved.booth # all_booths[pair[2]].booth

C23_OutputFreeOfDuplicates ==
    pc = "done" =>
        \A p \in 1..Len(returned[1].booths) : \A q \in (p + 1)..Len(returned[1].booths) :
            ~is_duplicate(merger, returned[1].booths[p], returned[1].booths[q])

(***************************************************************************)
(* C25.  merge_extraction_results and get_merge_statistics leave their     *)
(* inputs as the caller passed them: every record, every batch's booths    *)
(* and total_booths, and the similarity_threshold of the merger.  The fill *)
(* of _merge_booth_data writes to a new record only.                       *)
(***************************************************************************)
C25_InputsUnchanged ==
    /\ results = caller.results
    /\ merger.similarity_threshold = caller.similarity_threshold
    /\ all_booths # <<>> => all_booths = flatten(caller.results, 1)

\* The call and the statistics are done, and a group was resolved into a record that
\* none of its members is: the fill wrote a field.
C25_Witness ==
    /\ pc = "done"
    /\ statistics # <<>>
    /\ \E g \in 1..Len(booth_groups) :
           /\ \A k \in 1..Len(booth_groups[g]) :
                  all_booths[booth_groups[g][k]] # _merge_booth_data(members(booth_groups[g]))
           /\ \E k \in 1..Len(returned[1].booths) :
                  returned[1].booths[k] = _merge_booth_data(members(booth_groups[g]))

\* The result of a call that runs alone, as a function of the threshold and the
\* batches: the sweep over the flattened records, then the resolution of the groups.
RECURSIVE later_duplicates(_, _, _, _, _)
later_duplicates(th, records, seed, k, taken) ==
    IF k > Len(records) THEN <<>>
    ELSE IF k \notin taken /\ duplicate_table[th][records[seed]][records[k]]
         THEN <<k>> \o later_duplicates(th, records, seed, k + 1, taken)
         ELSE later_duplicates(th, records, seed, k + 1, taken)

RECURSIVE groups_alone(_, _, _, _)
groups_alone(th, records, seed, taken) ==
    IF seed > Len(records) THEN <<>>
    ELSE IF seed \in taken THEN groups_alone(th, records, seed + 1, taken)
    ELSE LET group == <<seed>> \o later_duplicates(th, records, seed, seed + 1, taken)
         IN  <<group>> \o groups_alone(th, records, seed + 1, taken \cup positions_of(group))

RECURSIVE resolved_alone(_, _, _)
resolved_alone(records, groups, k) ==
    IF k > Len(groups) THEN <<>>
    ELSE LET resolved == _merge_booth_data([m \in 1..Len(groups[k]) |-> records[groups[k][m]]])
         IN  (IF truthy(resolved.company_name) THEN <<resolved>> ELSE <<>>)
             \o resolved_alone(records, groups, k + 1)

merge_alone(th, batches) ==
    LET records == flatten(batches, 1)
        booths == resolved_alone(records, groups_alone(th, records, 1, {}), 1)
    IN  ExtractionResult(Len(booths), booths)

\* The running call returns what it returns alone.
runs_as_alone ==
    pc \in {"returned", "done"} => returned[1] = merge_alone(merger.similarity_threshold, results)

\* The two calls that exist: the running one and the suspended one.
both_frames == <<running_frame>> \o suspended

(***************************************************************************)
(* C21.  Two calls of merge_extraction_results, on one ResultMerger or on  *)
(* two with their own thresholds, each with its own batches, interleaved   *)
(* in any way: each returns the result it returns when it runs alone, no   *)
(* call raises, and the threshold of every instance stays what it was when *)
(* the call began.                                                         *)
(***************************************************************************)
C21_InterleavedCallsRunAsAlone ==
    /\ merger.similarity_threshold = caller.similarity_threshold
    /\ \A n \in 1..Len(both_frames) :
           LET frame == both_frames[n]
           IN  /\ frame.raised = ""
               /\ instances[frame.caller.instance].similarity_threshold
                      = frame.caller.similarity_threshold
               /\ frame.pc \in {"returned", "done"} =>
                      frame.returned[1] = merge_alone(frame.caller.similarity_threshold,
                                                      frame.caller.results)

\* Both calls are done; they ran on two mergers with different thresholds and gave
\* different results, of one record and of two, for batches of the same records.
C21_Witness ==
    /\ suspended # <<>>
    /\ pc = "done" /\ suspended[1].pc = "done"
    /\ caller.instance # suspended[1].caller.instance
    /\ caller.similarity_threshold # suspended[1].caller.similarity_threshold
    /\ caller.results = suspended[1].caller.results
    /\ returned # suspended[1].returned
    /\ Len(returned[1].booths) + Len(suspended[1].returned[1].booths) = 3

\* The records of the batches in input order, None batches and None records left out.
RECURSIVE utils_input(_, _)
utils_input(batches, k) ==
    IF k > Len(batches) THEN <<>>
    ELSE (IF is_none(batches[k]) THEN <<>>
          ELSE SelectSeq(batches[k].booths, LAMBDA booth : ~is_none(booth)))
         \o utils_input(batches, k + 1)

\* The company of an input record as the merger compares it: trimmed, in lower case.
company_of(booth) == lower(strip(or_empty(booth.company_name), Whitespace))

\* The input record as the merger keeps it: every field trimmed, None read as "".
stripped(booth) ==
    BoothData(strip(or_empty(booth.company_name), Whitespace),
              strip(or_empty(booth.booth), Whitespace),
              strip(or_empty(booth.size), Whitespace))

(***************************************************************************)
(* C28.  The list utils/merger.py returns has no company_name that is      *)
(* empty or one of none, null, n/a in any case; no two of its records have *)
(* the same trimmed, lowercased company_name; the record kept for a        *)
(* company is the first record of that company in input order; the list is *)
(* ascending by (booth, company_name); total_booths is its length; and     *)
(* None batches and None records are passed over without an exception.     *)
(***************************************************************************)
C28_UtilsMergeContract ==
    /\ raised = ""
    /\ pc = "done" =>
           LET out == returned[1].booths
               input == utils_input(results, 1)
           IN  /\ returned[1].total_booths = Len(out)
               /\ \A k \in 1..Len(out) : lower(out[k].company_name) \notin no_company
               /\ \A k \in 1..Len(out) : \A h \in 1..Len(out) :
                      lower(out[k].company_name) = lower(out[h].company_name) => k = h
               /\ \A k \in 1..Len(out) :
                      \E p \in 1..Len(input) :
                          /\ out[k] = stripped(input[p])
                          /\ \A q \in 1..(p - 1) : company_of(input[q]) # company_of(input[p])
               /\ \A k \in 1..(Len(out) - 1) : ~key_lt(out[k + 1], out[k])

\* What utils/merger.py does keep of C28: every part but the first occurrence.
C28_UtilsMergeWithoutFirstOccurrence ==
    /\ raised = ""
    /\ pc = "done" =>
           LET out == returned[1].booths
               input == utils_input(results, 1)
           IN  /\ returned[1].total_booths = Len(out)
               /\ \A k \in 1..Len(out) : lower(out[k].company_name) \notin no_company
               /\ \A k \in 1..Len(out) : \A h \in 1..Len(out) :
                      lower(out[k].company_name) = lower(out[h].company_name) => k = h
               /\ \A k \in 1..Len(out) : \E p \in 1..Len(input) : out[k] = stripped(input[p])
               /\ \A k \in 1..(Len(out) - 1) : ~key_lt(out[k + 1], out[k])

(***************************************************************************)
(* C29.  utils/merger.py drops a record with a valid company name only if  *)
(* an earlier kept record has the same trimmed, lowercased company name:   *)
(* every valid company of the input has a record in the output.            *)
(***************************************************************************)
C29_DroppedOnlyForSameCompany ==
    pc = "done" =>
        \A p \in 1..Len(utils_input(results, 1)) :
            LET company == company_of(utils_input(results, 1)[p])
            IN  company \notin no_company =>
                    \E k \in 1..Len(returned[1].booths) :
                        lower(returned[1].booths[k].company_name) = company

\* The coroutines that hold a slot of the semaphore: in the lookup or in the sleep.
in_flight == {task \in 1..Len(tasks) : tasks[task].at \in {"search_company", "sleep"}}

\* The names of the input.
distinct_names == {company_names[k] : k \in 1..Len(company_names)}

\* The last coroutine of a name.
last_task_of(name) ==
    CHOOSE task \in 1..Len(tasks) :
        /\ tasks[task].company_name = name
        /\ \A later \in (task + 1)..Len(tasks) : tasks[later].company_name # name

places_safe ==
    /\ Cardinality(in_flight) <= max_concurrent
    /\ pc = "gather" => semaphore + Cardinality(in_flight) = max_concurrent
    /\ pc = "done" =>
           /\ in_flight = {}
           /\ DOMAIN returned[1] = distinct_names
           /\ \A name \in distinct_names :
                  /\ returned[1][name] \in {Found, NotFound}
                  /\ returned[1][name] = tasks[last_task_of(name)].result[2]
                  /\ tasks[last_task_of(name)].places_data = NotFound
                         => returned[1][name] = NotFound

(***************************************************************************)
(* C30.  enrich_companies_batch never has more than max_concurrent lookups *)
(* in flight; a coroutine that took a slot gives it back, whether its      *)
(* lookup returns or raises; and the map returned has one entry for each   *)
(* distinct name of the input, None for a lookup that failed.              *)
(***************************************************************************)
C30_BoundedLookupsAndFullMap ==
    /\ []places_safe
    /\ \A task \in 1..MaxRecords :
           (task \in in_flight) ~> (task <= Len(tasks) /\ tasks[task].at = "done")
    /\ <>(pc = "done")

\* The call returned a map of two names, one found and one not, after three coroutines
\* shared a semaphore of two slots.
C30_Witness ==
    /\ pc = "done"
    /\ max_concurrent = 2
    /\ Len(tasks) = 3
    /\ \E task \in 1..Len(tasks) : tasks[task].places_data = Found
    /\ \E name \in distinct_names : returned[1][name] = NotFound
    /\ \E name \in distinct_names : returned[1][name] = Found
    /\ Cardinality(distinct_names) = 2

\* Two lookups are in flight and a third coroutine waits for a slot.
C30_WitnessFull ==
    /\ pc = "gather"
    /\ max_concurrent = 2
    /\ Cardinality(in_flight) = 2
    /\ semaphore = 0
    /\ \E task \in 1..Len(tasks) : tasks[task].at = "created"

=============================================================================
